---- MODULE Spec2Model ----
(***************************************************************************)
(* Model of the real-time core of the chat server: the SocketManager of    *)
(* backend/socket.js (registry, presence maps, typing map, the join /      *)
(* leave / send / typing / disconnect handlers), the HTTP message route of *)
(* routes/chat/messageManagement.js and the NotificationService            *)
(* (sendToRoomMembers / sendToUser).                                       *)
(*                                                                         *)
(* Every async handler is a task: one record of `tasks` whose pc names the *)
(* await it is suspended on.  One action runs the code between two awaits; *)
(* a handler that returns leaves `tasks`.  `last` shows the step just      *)
(* taken: the handler as it left the step and the events the step emitted. *)
(* A roomId is kept as the client sent it, <<"num", 42>> for the integer   *)
(* 42 and <<"str", 42>> for the string "42": a JavaScript Map keeps the    *)
(* two apart, while the template string `room_${roomId}` is the same for   *)
(* both.                                                                   *)
(***************************************************************************)
EXTENDS Integers, Sequences, FiniteSets, TLC

VARIABLES
    userSockets,   \* SocketManager.userSockets : firebase_uid -> socket
    roomUsers,     \* SocketManager.roomUsers   : roomId key -> Set of firebase_uid
    userRooms,     \* SocketManager.userRooms   : firebase_uid -> Set of roomId keys (insertion order)
    typingUsers,   \* SocketManager.typingUsers : roomId key -> Set of firebase_uid
    connState,     \* every socket: "idle" (no handshake yet), "auth" (in the middleware),
                   \* "refused", "new" (let through, 'connection' not yet handled), "open", "closed"
    sockRooms,     \* socket.io adapter: room id -> sockets joined to `room_<id>`
    tasks,         \* the async handlers that have not returned yet, in the order they started
    last,          \* the step just taken: the handler as it left the step, and the emits it made
    members,       \* table room_members: <<firebase_uid, room id>>
    messages,      \* table chat_messages: rows per <<firebase_uid, room id>>
    fcmToken,      \* users.fcm_token
    pushEnabled,   \* users.push_notifications_enabled
    sessions,      \* Redis: the value under session:<firebase_uid>, NoSession when there is no key
    ncmd           \* commands and requests accepted so far: join/leave, typing, send, token registration,
                   \* forced disconnection, session tokens issued by POST /login;
                   \* op: the last of join_room / leave_room accepted for <<firebase_uid, room id>>

vars == <<userSockets, roomUsers, userRooms, typingUsers, connState, sockRooms,
          tasks, last, members, messages, fcmToken, pushEnabled, sessions, ncmd>>

smVars == <<userSockets, roomUsers, userRooms, typingUsers>>
dbVars == <<members, messages, fcmToken, pushEnabled, sessions>>

----------------------------------------------------------------------------
(* Bounds of the model *)

\* join_room, leave_room and typing commands accepted in one behaviour of the
\* presence machine
MaxCmds == 3
\* join_room commands and send requests accepted in one behaviour of the send
\* path or of the dispatcher
MaxJoins == 2
MaxSends == 1
\* HTTP sends (one dispatch each) and token registrations accepted in one
\* behaviour of the token machine
MaxDispatches == 2
MaxRegs == 1
\* forced disconnections in one behaviour of the eviction machine
MaxForced == 1

Users == {"u1", "u2", "u3"}
RoomIds == {42}
\* a socket is <<owner, n>>; u1 may open a second connection; u9 is nobody's
\* row in users
Conns == {<<"u1", 1>>, <<"u1", 2>>, <<"u2", 1>>, <<"u3", 1>>, <<"u9", 1>>}

Null == "null"
NoConn == <<"none", 0>>

KeyTypes == {"num", "str"}
\* the forms in which a client can send a room id
Keys == KeyTypes \X RoomIds

----------------------------------------------------------------------------
(* JavaScript helpers *)

\* parseInt(roomId): the integer key
parseInt(k) == <<"num", k[2]>>

\* roomId.toString(): the string key
toString(k) == <<"str", k[2]>>

\* `room_${roomId}`: the adapter room, the same for 42 and "42"
RoomName(k) == k[2]

\* Map.prototype.has / get / set
MapHas(m, k) == k \in DOMAIN m
MapSet(m, k, v) == [x \in (DOMAIN m) \cup {k} |-> IF x = k THEN v ELSE m[x]]
MapDelete(m, k) == [x \in (DOMAIN m) \ {k} |-> m[x]]

\* an insertion-ordered Set kept as a sequence without repetitions
SeqRange(s) == {s[i] : i \in 1..Len(s)}
SeqAdd(s, x) == IF x \in SeqRange(s) THEN s ELSE Append(s, x)
SeqDel(s, x) == SelectSeq(s, LAMBDA y : y # x)

ConnUser(c) == c[1]


Open(c) == connState[c] = "open"
OpenConns == {c \in Conns : Open(c)}

EmptyMap == [x \in {} |-> {}]
NoKey == <<"num", 0>>

----------------------------------------------------------------------------
(* Tasks and events *)

\* a handler suspended on its first await, with its local variables: isMember,
\* saved (savedMessage is set), info (userInfo), and for sendToRoomMembers
\* active (activeUsers) and subs (the sendToUser call of each inactive member);
\* present is not a variable of the code: it keeps the room's present set as
\* it was when sendToRoomMembers read activeUsers; token is the fcm_token of
\* an updateFCMToken call and ret the count sendToRoomMembers resolves with
NewTask(kind, c, uid, k, pc) ==
    [kind |-> kind, conn |-> c, user |-> uid, key |-> k, pc |-> pc,
     isMember |-> FALSE, saved |-> FALSE, info |-> Null,
     active |-> {}, present |-> {}, subs |-> EmptyMap,
     token |-> Null, ret |-> 0]

NoTask == NewTask("none", NoConn, Null, NoKey, "done")

TaskIds == 1..Len(tasks)
At(t, kind, pc) == t \in TaskIds /\ tasks[t].kind = kind /\ tasks[t].pc = pc

\* the handler returns
Remove(t) == SubSeq(tasks, 1, t - 1) \o SubSeq(tasks, t + 1, Len(tasks))

\* one emit: `to` is the set of sockets the packet is delivered to, `room` the
\* adapter room it was addressed to (0: a single socket or everybody)
Event(ev, k, actor, to, room) ==
    [ev |-> ev, key |-> k, actor |-> actor, to |-> to, room |-> room]

\* io.to(`room_${roomId}`).emit(...): every connected socket the adapter holds
\* for the room; the adapter skips the ids of sockets that are gone
ToRoom(k) == sockRooms[RoomName(k)] \cap OpenConns

\* socket.to(`room_${roomId}`).emit(...): the same, except the socket itself
ToRoomExcept(k, c) == ToRoom(k) \ {c}

\* socket.emit(...): the socket itself, when it is still connected
ToSocket(c) == {c} \cap OpenConns

\* this.io.to(`room_${roomId}`).emit(ev, {roomId, user, ...})
EmitRoom(ev, k, actor) == Event(ev, k, actor, ToRoom(k), RoomName(k))

\* socket.emit(ev, ...)
EmitSocket(ev, k, actor, c) == Event(ev, k, actor, ToSocket(c), 0)

----------------------------------------------------------------------------
(* SocketManager: presence maps *)

\* a tracker that keeps the joined rooms of a user in an array and pushes the
\* room on every join: that a second join changes nothing rests on both
\* collections being Sets
addUserToRoomPush(pm, uid, k) ==
    [ru |-> MapSet(pm.ru, k, (IF MapHas(pm.ru, k) THEN pm.ru[k] ELSE {}) \cup {uid}),
     ur |-> MapSet(pm.ur, uid, Append(IF MapHas(pm.ur, uid) THEN pm.ur[uid] ELSE <<>>, k))]

\* SocketManager.addUserToRoom: pm is [ru |-> roomUsers, ur |-> userRooms]
addUserToRoom(pm, uid, k) ==
    [ru |-> MapSet(pm.ru, k, (IF MapHas(pm.ru, k) THEN pm.ru[k] ELSE {}) \cup {uid}),
     ur |-> MapSet(pm.ur, uid, SeqAdd(IF MapHas(pm.ur, uid) THEN pm.ur[uid] ELSE <<>>, k))]

\* a tracker whose leave forgets the user's joined set: that the two maps
\* mirror each other rests on removeUserFromRoom deleting on both sides
removeUserFromRoomOneSide(pm, uid, k) ==
    [ru |-> IF MapHas(pm.ru, k) THEN MapSet(pm.ru, k, pm.ru[k] \ {uid}) ELSE pm.ru,
     ur |-> pm.ur]

\* SocketManager.removeUserFromRoom
removeUserFromRoom(pm, uid, k) ==
    [ru |-> IF MapHas(pm.ru, k) THEN MapSet(pm.ru, k, pm.ru[k] \ {uid}) ELSE pm.ru,
     ur |-> IF MapHas(pm.ur, uid) THEN MapSet(pm.ur, uid, SeqDel(pm.ur[uid], k)) ELSE pm.ur]

\* SocketManager.getRoomStats(roomId).members
RoomStatsMembers(k) == IF MapHas(roomUsers, k) THEN roomUsers[k] ELSE {}

\* SocketManager.getRoomStats(roomId).typingUsers
RoomStatsTyping(k) == IF MapHas(typingUsers, k) THEN typingUsers[k] ELSE {}

\* SocketManager.getUserRooms(firebase_uid)
getUserRooms(uid) == IF MapHas(userRooms, uid) THEN userRooms[uid] ELSE <<>>

\* SocketManager.getActiveUsersInRoom: the numeric key first, the string key
\* only when the map has no entry (not: an empty entry) under the numeric key
getActiveUsersInRoom(k) ==
    IF MapHas(roomUsers, parseInt(k)) THEN roomUsers[parseInt(k)]
    ELSE IF MapHas(roomUsers, toString(k)) THEN roomUsers[toString(k)]
    ELSE {}

\* SocketManager.getConnectedUsers
getConnectedUsers == DOMAIN userSockets

\* a membership check that lets everybody through while the store answers: the
\* rejection of a non-member's send rests on verifyRoomMembership
verifyRoomMembershipAnyone(uid, k, dbOk) == dbOk

\* SocketManager.verifyRoomMembership: RoomMember.findOne, false when the
\* query throws (dbOk = FALSE)
verifyRoomMembership(uid, k, dbOk) == dbOk /\ <<uid, k[2]>> \in members

\* SocketManager.getUserInfo: the user's public profile, null when the query
\* throws
getUserInfo(uid, dbOk) == IF dbOk THEN uid ELSE Null

----------------------------------------------------------------------------
(* SocketManager: connection, join, leave, typing, disconnect *)

\* a handler starts and suspends on its first await
Start(T) ==
    /\ tasks' = Append(tasks, T)
    /\ last' = [t |-> T, evs |-> <<>>]

\* a handler runs from one await to the next
Continue(t, T, evs) ==
    /\ tasks' = [tasks EXCEPT ![t] = T]
    /\ last' = [t |-> T, evs |-> evs]

\* a handler runs from an await to its return
Return(t, T, evs) ==
    /\ tasks' = Remove(t)
    /\ last' = [t |-> [T EXCEPT !.pc = "done"], evs |-> evs]

\* a listener without awaits runs as a whole
Sync(T, evs) ==
    /\ last' = [t |-> T, evs |-> evs]
    /\ UNCHANGED tasks

\* a registry that keeps the first socket of an identity: that the latest
\* connection wins rests on the unconditional userSockets.set
handleConnectionKeepFirst(c) ==
    /\ connState[c] = "new"
    /\ connState' = [connState EXCEPT ![c] = "open"]
    /\ userSockets' = (IF MapHas(userSockets, c[1]) THEN userSockets
                       ELSE MapSet(userSockets, c[1], c))
    /\ last' = [t |-> NewTask("connect", c, c[1], <<"num", 0>>, "done"),
                evs |-> <<Event("status_online", <<"num", 0>>, c[1],
                                {x \in Conns : connState[x] = "open"} \cup {c}, 0)>>]
    /\ UNCHANGED <<roomUsers, userRooms, typingUsers, sockRooms, tasks,
                   members, messages, fcmToken, pushEnabled, sessions, ncmd>>

\* handleConnection(socket): an authenticated socket enters the registry and
\* broadcastUserStatus(firebase_uid, 'online') goes to every socket
handleConnection(c) ==
    /\ connState[c] = "new"
    /\ connState' = [connState EXCEPT ![c] = "open"]
    /\ userSockets' = MapSet(userSockets, ConnUser(c), c)
    /\ Sync(NewTask("connect", c, ConnUser(c), NoKey, "done"),
            <<Event("status_online", NoKey, ConnUser(c), OpenConns \cup {c}, 0)>>)
    /\ UNCHANGED <<roomUsers, userRooms, typingUsers, sockRooms, dbVars, ncmd>>

\* socket.on('join_room'): handleJoinRoom up to `await verifyRoomMembership`
JoinRoom(c, k) ==
    /\ Open(c)
    /\ ncmd' = [ncmd EXCEPT !.room = @ + 1, !.op[<<ConnUser(c), k[2]>>] = "join"]
    /\ Start(NewTask("join", c, ConnUser(c), k, "verify"))
    /\ UNCHANGED <<smVars, connState, sockRooms, dbVars>>

\* a join that goes on to socket.join and addUserToRoom whatever the membership
\* check answered: that presence holds durable members only rests on the early
\* return of handleJoinRoom
JoinVerifiedUnchecked(t, dbOk) ==
    /\ At(t, "join", "verify")
    /\ LET T == tasks[t]
           isMember == verifyRoomMembership(T.user, T.key, dbOk)
           pm == addUserToRoom([ru |-> roomUsers, ur |-> userRooms], T.user, T.key)
       IN /\ sockRooms' = [sockRooms EXCEPT ![RoomName(T.key)] = @ \cup {T.conn}]
          /\ roomUsers' = pm.ru
          /\ userRooms' = pm.ur
          /\ Continue(t, [T EXCEPT !.pc = "userinfo", !.isMember = isMember], <<>>)
    /\ UNCHANGED <<userSockets, typingUsers, connState, dbVars, ncmd>>

\* a join whose rejection is announced to the room instead of the socket: that
\* a failed join is invisible to the room rests on socket.emit('error')
JoinVerifiedErrorToRoom(t, dbOk) ==
    /\ At(t, "join", "verify")
    /\ LET T == tasks[t]
           isMember == verifyRoomMembership(T.user, T.key, dbOk)
           pm == addUserToRoom([ru |-> roomUsers, ur |-> userRooms], T.user, T.key)
       IN IF ~isMember
          THEN /\ Return(t, T, <<EmitRoom("error", T.key, T.user)>>)
               /\ UNCHANGED <<roomUsers, userRooms, sockRooms>>
          ELSE /\ sockRooms' = [sockRooms EXCEPT ![RoomName(T.key)] = @ \cup {T.conn}]
               /\ roomUsers' = pm.ru
               /\ userRooms' = pm.ur
               /\ Continue(t, [T EXCEPT !.pc = "userinfo", !.isMember = TRUE], <<>>)
    /\ UNCHANGED <<userSockets, typingUsers, connState, dbVars, ncmd>>

\* handleJoinRoom from the membership result to the error return, or through
\* socket.join and addUserToRoom to `await getUserInfo`
JoinVerified(t, dbOk) ==
    /\ At(t, "join", "verify")
    /\ LET T == tasks[t]
           isMember == verifyRoomMembership(T.user, T.key, dbOk)
           pm == addUserToRoom([ru |-> roomUsers, ur |-> userRooms], T.user, T.key)
       IN IF ~isMember
          THEN /\ Return(t, T, <<EmitSocket("error", T.key, T.user, T.conn)>>)
               /\ UNCHANGED <<roomUsers, userRooms, sockRooms>>
          ELSE /\ sockRooms' = [sockRooms EXCEPT ![RoomName(T.key)] = @ \cup {T.conn}]
               /\ roomUsers' = pm.ru
               /\ userRooms' = pm.ur
               /\ Continue(t, [T EXCEPT !.pc = "userinfo", !.isMember = TRUE], <<>>)
    /\ UNCHANGED <<userSockets, typingUsers, connState, dbVars, ncmd>>

\* handleJoinRoom after `await getUserInfo`: user_joined to the room, then
\* room_joined to the socket
JoinFinish(t, dbOk) ==
    /\ At(t, "join", "userinfo")
    /\ LET T == tasks[t]
           userInfo == getUserInfo(T.user, dbOk)
       IN Return(t, [T EXCEPT !.info = userInfo],
                 <<EmitRoom("user_joined", T.key, userInfo),
                   EmitSocket("room_joined", T.key, T.user, T.conn)>>)
    /\ UNCHANGED <<smVars, connState, sockRooms, dbVars, ncmd>>

\* socket.on('leave_room'): handleLeaveRoom up to `await getUserInfo`
LeaveRoom(c, k) ==
    /\ Open(c)
    /\ ncmd' = [ncmd EXCEPT !.room = @ + 1, !.op[<<ConnUser(c), k[2]>>] = "leave"]
    /\ Start(NewTask("leave", c, ConnUser(c), k, "userinfo"))
    /\ UNCHANGED <<smVars, connState, sockRooms, dbVars>>

\* handleLeaveRoom after `await getUserInfo`: user_left to the room, then
\* socket.leave, removeUserFromRoom and room_left to the socket
LeaveFinish(t, dbOk) ==
    /\ At(t, "leave", "userinfo")
    /\ LET T == tasks[t]
           userInfo == getUserInfo(T.user, dbOk)
           pm == removeUserFromRoom([ru |-> roomUsers, ur |-> userRooms], T.user, T.key)
       IN /\ Return(t, [T EXCEPT !.info = userInfo],
                    <<EmitRoom("user_left", T.key, userInfo),
                      EmitSocket("room_left", T.key, T.user, T.conn)>>)
          /\ sockRooms' = [sockRooms EXCEPT ![RoomName(T.key)] = @ \ {T.conn}]
          /\ roomUsers' = pm.ru
          /\ userRooms' = pm.ur
    /\ UNCHANGED <<userSockets, typingUsers, connState, dbVars, ncmd>>

\* handleTypingStart: the typing set of the key gains the user (no presence
\* or membership check), typing_indicator goes to the room except the socket
handleTypingStart(c, k) ==
    /\ Open(c)
    /\ ncmd' = [ncmd EXCEPT !.typing = @ + 1]
    /\ typingUsers' = MapSet(typingUsers, k,
          (IF MapHas(typingUsers, k) THEN typingUsers[k] ELSE {}) \cup {ConnUser(c)})
    /\ Sync(NewTask("typing_start", c, ConnUser(c), k, "done"),
            <<Event("typing_true", k, ConnUser(c), ToRoomExcept(k, c), RoomName(k))>>)
    /\ UNCHANGED <<userSockets, roomUsers, userRooms, connState, sockRooms, dbVars>>

\* handleTypingStop
handleTypingStop(c, k) ==
    /\ Open(c)
    /\ ncmd' = [ncmd EXCEPT !.typing = @ + 1]
    /\ typingUsers' = (IF MapHas(typingUsers, k)
                       THEN MapSet(typingUsers, k, typingUsers[k] \ {ConnUser(c)})
                       ELSE typingUsers)
    /\ Sync(NewTask("typing_stop", c, ConnUser(c), k, "done"),
            <<Event("typing_false", k, ConnUser(c), ToRoomExcept(k, c), RoomName(k))>>)
    /\ UNCHANGED <<userSockets, roomUsers, userRooms, connState, sockRooms, dbVars>>

\* the socket closes (client disconnect or transport fault): socket.io takes it
\* out of every adapter room, then the 'disconnect' listener starts
\* handleDisconnection(firebase_uid), which suspends on `await getUserInfo`
SocketDisconnect(c) ==
    /\ Open(c)
    /\ connState' = [connState EXCEPT ![c] = "closed"]
    /\ sockRooms' = [r \in RoomIds |-> sockRooms[r] \ {c}]
    /\ Start(NewTask("disconnect", c, ConnUser(c), NoKey, "userinfo"))
    /\ UNCHANGED <<smVars, dbVars, ncmd>>

\* the loop of handleDisconnection over userRooms.get(firebase_uid): user_left
\* to the room, then removeUserFromRoom, for each key in insertion order
RECURSIVE DropRooms(_, _, _, _)
DropRooms(st, ks, uid, userInfo) ==
    IF ks = <<>> THEN st
    ELSE LET k == Head(ks)
             pm == removeUserFromRoom([ru |-> st.ru, ur |-> st.ur], uid, k)
         IN DropRooms([ru |-> pm.ru, ur |-> pm.ur,
                       ev |-> Append(st.ev, EmitRoom("user_left", k, userInfo))],
                      Tail(ks), uid, userInfo)

\* a cleanup that takes the identity out of roomUsers and of the registry but
\* leaves its joined set behind: that a second cleanup finds nothing to
\* announce rests on removeUserFromRoom and userRooms.delete
handleDisconnectionKeepJoined(t, dbOk) ==
    /\ At(t, "disconnect", "userinfo")
    /\ LET T == tasks[t]
           userInfo == getUserInfo(T.user, dbOk)
           st == DropRooms([ru |-> roomUsers, ur |-> userRooms, ev |-> <<>>],
                           getUserRooms(T.user), T.user, userInfo)
       IN /\ roomUsers' = st.ru
          /\ userSockets' = MapDelete(userSockets, T.user)
          /\ Return(t, [T EXCEPT !.info = userInfo],
                    Append(st.ev, Event("status_offline", NoKey, T.user, OpenConns, 0)))
    /\ UNCHANGED <<userRooms, typingUsers, connState, sockRooms, dbVars, ncmd>>

\* a cleanup that unregisters the identity without the loop over its rooms:
\* that nobody is present without being registered once the cleanup has run
\* rests on the loop coming before userSockets.delete
handleDisconnectionUnregisterOnly(t, dbOk) ==
    /\ At(t, "disconnect", "userinfo")
    /\ LET T == tasks[t]
           userInfo == getUserInfo(T.user, dbOk)
       IN /\ userRooms' = MapDelete(userRooms, T.user)
          /\ userSockets' = MapDelete(userSockets, T.user)
          /\ Return(t, [T EXCEPT !.info = userInfo],
                    <<Event("status_offline", NoKey, T.user, OpenConns, 0)>>)
    /\ UNCHANGED <<roomUsers, typingUsers, connState, sockRooms, dbVars, ncmd>>

\* a cleanup that gives up when the user lookup yields nothing: that the
\* cleanup is unconditional rests on getUserInfo catching its own error and
\* on the loop not depending on userInfo
handleDisconnectionNeedsUser(t, dbOk) ==
    /\ At(t, "disconnect", "userinfo")
    /\ LET T == tasks[t]
           userInfo == getUserInfo(T.user, dbOk)
           st == DropRooms([ru |-> roomUsers, ur |-> userRooms, ev |-> <<>>],
                           getUserRooms(T.user), T.user, userInfo)
       IN IF userInfo = Null
          THEN /\ Return(t, [T EXCEPT !.info = userInfo], <<>>)
               /\ UNCHANGED <<roomUsers, userRooms, userSockets>>
          ELSE /\ roomUsers' = st.ru
               /\ userRooms' = MapDelete(st.ur, T.user)
               /\ userSockets' = MapDelete(userSockets, T.user)
               /\ Return(t, [T EXCEPT !.info = userInfo],
                         Append(st.ev, Event("status_offline", NoKey, T.user, OpenConns, 0)))
    /\ UNCHANGED <<typingUsers, connState, sockRooms, dbVars, ncmd>>

\* handleDisconnection after `await getUserInfo`: the loop, then
\* userRooms.delete, userSockets.delete and the 'offline' status broadcast
handleDisconnection(t, dbOk) ==
    /\ At(t, "disconnect", "userinfo")
    /\ LET T == tasks[t]
           userInfo == getUserInfo(T.user, dbOk)
           st == DropRooms([ru |-> roomUsers, ur |-> userRooms, ev |-> <<>>],
                           getUserRooms(T.user), T.user, userInfo)
       IN /\ roomUsers' = st.ru
          /\ userRooms' = MapDelete(st.ur, T.user)
          /\ userSockets' = MapDelete(userSockets, T.user)
          /\ Return(t, [T EXCEPT !.info = userInfo],
                    Append(st.ev, Event("status_offline", NoKey, T.user, OpenConns, 0)))
    /\ UNCHANGED <<typingUsers, connState, sockRooms, dbVars, ncmd>>

\* handleForcedDisconnection(firebase_uid): when the registry holds a socket,
\* forced_disconnect goes to it and socket.disconnect(true) closes it, which
\* (for a socket still connected) takes it out of its rooms and runs the
\* 'disconnect' listener, whose handleDisconnection suspends on getUserInfo;
\* then the method calls handleDisconnection itself, which suspends likewise
handleForcedDisconnection(uid) ==
    /\ ncmd' = [ncmd EXCEPT !.forced = @ + 1]
    /\ LET own == NewTask("disconnect", NoConn, uid, NoKey, "userinfo")
       IN IF MapHas(userSockets, uid)
          THEN LET socket == userSockets[uid]
                   ev == EmitSocket("forced_disconnect", NoKey, uid, socket)
               IN IF Open(socket)
                  THEN /\ connState' = [connState EXCEPT ![socket] = "closed"]
                       /\ sockRooms' = [r \in RoomIds |-> sockRooms[r] \ {socket}]
                       /\ tasks' = tasks \o
                            <<NewTask("disconnect", socket, uid, NoKey, "userinfo"), own>>
                       /\ last' = [t |-> own, evs |-> <<ev>>]
                  ELSE /\ tasks' = Append(tasks, own)
                       /\ last' = [t |-> own, evs |-> <<ev>>]
                       /\ UNCHANGED <<connState, sockRooms>>
          ELSE /\ Start(own)
               /\ UNCHANGED <<connState, sockRooms>>
    /\ UNCHANGED <<smVars, dbVars>>

----------------------------------------------------------------------------
(* SocketManager: send_message *)

\* socket.on('send_message'): handleSendMessage up to `await verifyRoomMembership`
SendMessage(c, k) ==
    /\ Open(c)
    /\ ncmd' = [ncmd EXCEPT !.send = @ + 1]
    /\ Start(NewTask("send", c, ConnUser(c), k, "verify"))
    /\ UNCHANGED <<smVars, connState, sockRooms, dbVars>>

\* handleSendMessage from the membership result to the error return or to
\* `await saveMessageToDatabase` (saveFileMessageToDatabase for a file)
SendVerified(t, dbOk) ==
    /\ At(t, "send", "verify")
    /\ LET T == tasks[t]
           isMember == verifyRoomMembership(T.user, T.key, dbOk)
       IN IF ~isMember
          THEN Return(t, T, <<EmitSocket("error", T.key, T.user, T.conn)>>)
          ELSE Continue(t, [T EXCEPT !.pc = "save", !.isMember = TRUE], <<>>)
    /\ UNCHANGED <<smVars, connState, sockRooms, dbVars, ncmd>>

\* saveMessageToDatabase: ChatMessage.create adds a row, or throws
saveMessageToDatabase(uid, k, dbOk) ==
    IF dbOk THEN [messages EXCEPT ![<<uid, k[2]>>] = @ + 1] ELSE messages

\* a handler that goes on after a failed save: the private error on a failed
\* save rests on SendSaved
SendSavedUnchecked(t, dbOk) ==
    /\ At(t, "send", "save")
    /\ messages' = saveMessageToDatabase(tasks[t].user, tasks[t].key, dbOk)
    /\ Continue(t, [tasks[t] EXCEPT !.pc = "userinfo", !.saved = dbOk], <<>>)
    /\ UNCHANGED <<smVars, connState, sockRooms, members, fcmToken, pushEnabled, sessions, ncmd>>

\* handleSendMessage after the save: on to `await getUserInfo`, or, when the
\* save threw, the catch block: an error to the socket
SendSaved(t, dbOk) ==
    /\ At(t, "send", "save")
    /\ LET T == tasks[t]
       IN /\ messages' = saveMessageToDatabase(T.user, T.key, dbOk)
          /\ IF dbOk
             THEN Continue(t, [T EXCEPT !.pc = "userinfo", !.saved = TRUE], <<>>)
             ELSE Return(t, T, <<EmitSocket("error", T.key, T.user, T.conn)>>)
    /\ UNCHANGED <<smVars, connState, sockRooms, members, fcmToken, pushEnabled, sessions, ncmd>>

\* handleSendMessage from the getUserInfo result to `await getRoomInfo`
SendUserInfo(t, dbOk) ==
    /\ At(t, "send", "userinfo")
    /\ LET T == tasks[t]
       IN Continue(t, [T EXCEPT !.pc = "roominfo", !.info = getUserInfo(T.user, dbOk)],
                   <<>>)
    /\ UNCHANGED <<smVars, connState, sockRooms, dbVars, ncmd>>

\* socket.to(...) in place of io.to(...): the sender's own socket is left out
\* of the broadcast; the delivery to every present connection rests on
\* BroadcastAndAck
BroadcastToOthersAndAck(T) ==
    <<Event("message_received", T.key, T.info, ToRoomExcept(T.key, T.conn), RoomName(T.key)),
      EmitSocket("message_sent", T.key, T.info, T.conn)>>

\* the acknowledgment ahead of the broadcast: the order of the two rests on
\* BroadcastAndAck
AckThenBroadcast(T) ==
    <<EmitSocket("message_sent", T.key, T.info, T.conn),
      EmitRoom("message_received", T.key, T.info)>>

\* the end of handleSendMessage: message_received to the room, then
\* message_sent to the socket
BroadcastAndAck(T) ==
    <<EmitRoom("message_received", T.key, T.info),
      EmitSocket("message_sent", T.key, T.info, T.conn)>>

\* SocketManager.sendPushNotifications: builds the notification from userInfo
\* (a TypeError, caught, when userInfo is null), calls sendToRoomMembers, which
\* runs to its `await RoomMember.findAll`, and does not await its promise
sendPushNotifications(T) ==
    IF T.info = Null THEN <<>>
    ELSE <<NewTask("dispatch", T.conn, T.user, T.key, "findAll")>>

\* handleSendMessage from the getRoomInfo result: with a room,
\* `await sendPushNotifications`; without one, straight to the broadcast and
\* the acknowledgment
SendRoomInfo(t, roomOk) ==
    /\ At(t, "send", "roominfo")
    /\ LET T == tasks[t]
           T2 == [T EXCEPT !.pc = "notified"]
       IN IF roomOk
          THEN /\ tasks' = [tasks EXCEPT ![t] = T2] \o sendPushNotifications(T)
               /\ last' = [t |-> T2, evs |-> <<>>]
          ELSE Return(t, T, BroadcastAndAck(T))
    /\ UNCHANGED <<smVars, connState, sockRooms, dbVars, ncmd>>

\* a handler that awaits the promise of sendToRoomMembers: that the send path
\* never waits for the gateway rests on SendBroadcast
SendBroadcastAfterDispatch(t) ==
    /\ At(t, "send", "notified")
    /\ \A d \in TaskIds : ~(tasks[d].kind = "dispatch" /\ tasks[d].conn = tasks[t].conn)
    /\ Return(t, tasks[t], BroadcastAndAck(tasks[t]))
    /\ UNCHANGED <<smVars, connState, sockRooms, dbVars, ncmd>>

\* handleSendMessage after `await sendPushNotifications`
SendBroadcast(t) ==
    /\ At(t, "send", "notified")
    /\ Return(t, tasks[t], BroadcastAndAck(tasks[t]))
    /\ UNCHANGED <<smVars, connState, sockRooms, dbVars, ncmd>>

----------------------------------------------------------------------------
(* NotificationService: sendToRoomMembers and sendToUser *)

\* the sendToUser call for one member: not started because the member's row
\* showed notifications off or no token ("skipped"), suspended on User.findOne
\* ("findUser"), on messaging.send ("sending", with the token submitted), on
\* the User.update of removeInvalidToken ("removing"), or returned: true
\* ("sent"), false before any submission ("false"), false after a rejected
\* one ("failed"), false after removeInvalidToken ("removed")
Sub(st, token) == [st |-> st, token |-> token]
SubDone == {"skipped", "sent", "false", "failed", "removed"}
SubPushed == {"sending", "removing", "sent", "failed", "removed"}

\* checkSocketManagerStatus().available: global.socketManager is set when the
\* server starts listening, before any route or socket is served
socketStatusAvailable == TRUE

\* RoomMember.findAll({room_id: roomId, firebase_uid != senderId})
findAllMembers(k, senderId) == {u \in Users : <<u, k[2]>> \in members /\ u # senderId}

\* the filter of sendToRoomMembers: without active users nobody is filtered
inactiveMembers(roomMembers, activeUsers) ==
    IF socketStatusAvailable /\ activeUsers # {}
    THEN roomMembers \ activeUsers
    ELSE roomMembers

\* the per-member guard of sendToRoomMembers on the joined User row
memberEligible(u) == pushEnabled[u] /\ fcmToken[u] # Null

\* sendToRoomMembers after `await RoomMember.findAll`: return 0 when the query
\* threw or nobody is left, else one sendToUser call per eligible inactive
\* member and `await Promise.all`
DispatchFindAll(t, dbOk) ==
    /\ At(t, "dispatch", "findAll")
    /\ LET T == tasks[t]
           roomMembers == findAllMembers(T.key, T.user)
           activeUsers == getActiveUsersInRoom(T.key)
           inactive == inactiveMembers(roomMembers, activeUsers)
           T2 == [T EXCEPT !.active = activeUsers,
                           !.present = UNION {(IF MapHas(roomUsers, k) THEN roomUsers[k] ELSE {}) :
                                              k \in {kk \in Keys : kk[2] = T.key[2]}},
                           !.subs = [u \in inactive |->
                                       IF memberEligible(u) THEN Sub("findUser", Null)
                                       ELSE Sub("skipped", Null)],
                           !.pc = "all"]
       IN IF ~dbOk THEN Return(t, T, <<>>)
          ELSE IF inactive = {} THEN Return(t, [T EXCEPT !.active = activeUsers], <<>>)
          ELSE Continue(t, T2, <<>>)
    /\ UNCHANGED <<smVars, connState, sockRooms, dbVars, ncmd>>

AtSub(t, u, st) ==
    /\ At(t, "dispatch", "all")
    /\ u \in DOMAIN tasks[t].subs
    /\ tasks[t].subs[u].st = st

SetSub(t, u, sub) == [tasks[t] EXCEPT !.subs[u] = sub]

\* sendToUser after `await User.findOne`: false when the query threw, the
\* user has notifications off or has no token; else messaging.send(token)
SendToUserFound(t, u, dbOk) ==
    /\ AtSub(t, u, "findUser")
    /\ IF dbOk /\ pushEnabled[u] /\ fcmToken[u] # Null
       THEN Continue(t, SetSub(t, u, Sub("sending", fcmToken[u])), <<>>)
       ELSE Continue(t, SetSub(t, u, Sub("false", Null)), <<>>)
    /\ UNCHANGED <<smVars, connState, sockRooms, dbVars, ncmd>>

GatewayOutcomes == {"ok", "invalid", "error"}

\* messaging.send settles: resolved ("ok"), rejected with an invalid-token
\* code ("invalid": on to `await removeInvalidToken`), rejected otherwise
GatewayRespond(t, u, outcome) ==
    /\ AtSub(t, u, "sending")
    /\ LET tok == tasks[t].subs[u].token
       IN Continue(t, SetSub(t, u, Sub(CASE outcome = "ok" -> "sent"
                                         [] outcome = "invalid" -> "removing"
                                         [] OTHER -> "failed", tok)), <<>>)
    /\ UNCHANGED <<smVars, connState, sockRooms, dbVars, ncmd>>

\* a removal that only logs: the clearing of a token the gateway refused
\* rests on removeInvalidToken
removeInvalidTokenLogOnly(uid, dbOk) == fcmToken

\* removeInvalidToken(userId): User.update({fcm_token: null}) for the user,
\* whatever token the user holds now; a failed update is logged
removeInvalidToken(uid, dbOk) ==
    IF dbOk THEN [fcmToken EXCEPT ![uid] = Null] ELSE fcmToken

\* sendToUser after `await this.removeInvalidToken(userId)`: return false
RemovedInvalidToken(t, u, dbOk) ==
    /\ AtSub(t, u, "removing")
    /\ fcmToken' = removeInvalidToken(u, dbOk)
    /\ Continue(t, SetSub(t, u, Sub("removed", tasks[t].subs[u].token)), <<>>)
    /\ UNCHANGED <<smVars, connState, sockRooms, members, messages, pushEnabled, sessions, ncmd>>

\* a count of the pushes submitted rather than accepted: the count a
\* dispatch resolves with rests on successCount
submittedCount(T) == Cardinality({u \in DOMAIN T.subs : T.subs[u].st \in SubPushed})

\* successCount of sendToRoomMembers
successCount(T) == Cardinality({u \in DOMAIN T.subs : T.subs[u].st = "sent"})

\* sendToRoomMembers after `await Promise.all(promises)`: return successCount
DispatchDone(t) ==
    /\ At(t, "dispatch", "all")
    /\ \A u \in DOMAIN tasks[t].subs : tasks[t].subs[u].st \in SubDone
    /\ Return(t, [tasks[t] EXCEPT !.ret = successCount(tasks[t])], <<>>)
    /\ UNCHANGED <<smVars, connState, sockRooms, dbVars, ncmd>>

----------------------------------------------------------------------------
(* routes/chat/messageManagement.js: POST /rooms/:roomId/messages *)

\* res.status(code).json(...): seen by the requester alone
Respond(code, k, uid) == Event(code, k, uid, {}, 0)

\* the request arrives (req.params.roomId is a string): 400 for an empty or
\* too long message, else on to `await RoomMember.findOne`
HttpSendMessage(uid, r, valid) ==
    /\ ncmd' = [ncmd EXCEPT !.send = @ + 1]
    /\ IF valid
       THEN Start(NewTask("http_send", NoConn, uid, <<"str", r>>, "verify"))
       ELSE Sync(NewTask("http_send", NoConn, uid, <<"str", r>>, "done"),
                 <<Respond("res_400", <<"str", r>>, uid)>>)
    /\ UNCHANGED <<smVars, connState, sockRooms, dbVars>>

\* after the membership query: 500 when it threw, 403 without a row, else on
\* to `await ChatMessage.create`
HttpSendVerified(t, dbOk) ==
    /\ At(t, "http_send", "verify")
    /\ LET T == tasks[t]
       IN IF ~dbOk THEN Return(t, T, <<Respond("res_500", T.key, T.user)>>)
          ELSE IF <<T.user, T.key[2]>> \notin members
          THEN Return(t, T, <<Respond("res_403", T.key, T.user)>>)
          ELSE Continue(t, [T EXCEPT !.pc = "save", !.isMember = TRUE], <<>>)
    /\ UNCHANGED <<smVars, connState, sockRooms, dbVars, ncmd>>

\* after ChatMessage.create: 500 when it threw, else on to `await User.findOne`
HttpSendSaved(t, dbOk) ==
    /\ At(t, "http_send", "save")
    /\ LET T == tasks[t]
       IN /\ messages' = saveMessageToDatabase(T.user, T.key, dbOk)
          /\ IF dbOk
             THEN Continue(t, [T EXCEPT !.pc = "userinfo", !.saved = TRUE], <<>>)
             ELSE Return(t, T, <<Respond("res_500", T.key, T.user)>>)
    /\ UNCHANGED <<smVars, connState, sockRooms, members, fcmToken, pushEnabled, sessions, ncmd>>

\* after User.findOne: 500 when it threw, else into sendPushNotifications up
\* to its `await ChatRoom.findByPk`
HttpSendUserInfo(t, dbOk) ==
    /\ At(t, "http_send", "userinfo")
    /\ LET T == tasks[t]
       IN IF dbOk
          THEN Continue(t, [T EXCEPT !.pc = "roominfo", !.info = T.user], <<>>)
          ELSE Return(t, T, <<Respond("res_500", T.key, T.user)>>)
    /\ UNCHANGED <<smVars, connState, sockRooms, dbVars, ncmd>>

\* sendPushNotifications of the route after ChatRoom.findByPk: return without
\* a room (or when the query threw), else call sendToRoomMembers and return
\* without awaiting it
HttpSendRoomInfo(t, roomOk) ==
    /\ At(t, "http_send", "roominfo")
    /\ LET T == tasks[t]
           T2 == [T EXCEPT !.pc = "notified"]
       IN /\ tasks' = [tasks EXCEPT ![t] = T2] \o
                         (IF roomOk THEN sendPushNotifications(T) ELSE <<>>)
          /\ last' = [t |-> T2, evs |-> <<>>]
    /\ UNCHANGED <<smVars, connState, sockRooms, dbVars, ncmd>>

\* broadcastMessageToRoom: message_received to the room
HttpSendBroadcast(t) ==
    /\ At(t, "http_send", "notified")
    /\ LET T == tasks[t]
       IN Continue(t, [T EXCEPT !.pc = "respond"],
                   <<EmitRoom("message_received", T.key, T.info)>>)
    /\ UNCHANGED <<smVars, connState, sockRooms, dbVars, ncmd>>

\* res.status(201)
HttpSendRespond(t) ==
    /\ At(t, "http_send", "respond")
    /\ Return(t, tasks[t], <<Respond("res_201", tasks[t].key, tasks[t].user)>>)
    /\ UNCHANGED <<smVars, connState, sockRooms, dbVars, ncmd>>

----------------------------------------------------------------------------
(* NotificationService.updateFCMToken, called by POST /fcm-token *)

\* the users other than uid that hold the token
tokenHolders(uid, tok) == {u \in Users : u # uid /\ fcmToken[u] = tok}

\* POST /fcm-token with a token: updateFCMToken up to its `await User.findOne`
\* for another user holding the token
UpdateFCMToken(uid, tok) ==
    /\ ncmd' = [ncmd EXCEPT !.reg = @ + 1]
    /\ Start([NewTask("token", NoConn, uid, NoKey, "find") EXCEPT !.token = tok])
    /\ UNCHANGED <<smVars, connState, sockRooms, dbVars>>

\* updateFCMToken after the findOne: false when it threw; with a holder, on to
\* the User.update that clears the holder's token; else on to the User.update
\* of the user's own row
TokenFound(t, dbOk) ==
    /\ At(t, "token", "find")
    /\ LET T == tasks[t]
           holders == tokenHolders(T.user, T.token)
       IN IF ~dbOk THEN Return(t, T, <<Respond("res_500", NoKey, T.user)>>)
          ELSE IF holders # {}
          THEN Continue(t, [T EXCEPT !.pc = "clear", !.info = CHOOSE u \in holders : TRUE], <<>>)
          ELSE Continue(t, [T EXCEPT !.pc = "set"], <<>>)
    /\ UNCHANGED <<smVars, connState, sockRooms, dbVars, ncmd>>

\* updateFCMToken after the update of the previous holder's row
TokenCleared(t, dbOk) ==
    /\ At(t, "token", "clear")
    /\ LET T == tasks[t]
       IN IF dbOk
          THEN /\ fcmToken' = [fcmToken EXCEPT ![T.info] = Null]
               /\ Continue(t, [T EXCEPT !.pc = "set"], <<>>)
          ELSE /\ Return(t, T, <<Respond("res_500", NoKey, T.user)>>)
               /\ UNCHANGED fcmToken
    /\ UNCHANGED <<smVars, connState, sockRooms, members, messages, pushEnabled, sessions, ncmd>>

\* an update of the user's own row on a table without the unique index: that
\* no two rows hold one token rests on users_fcm_token_unique
TokenSetNoIndex(t, dbOk) ==
    /\ At(t, "token", "set")
    /\ LET T == tasks[t]
       IN IF dbOk
          THEN /\ fcmToken' = [fcmToken EXCEPT ![T.user] = T.token]
               /\ Return(t, T, <<Respond("res_200", NoKey, T.user)>>)
          ELSE /\ Return(t, T, <<Respond("res_500", NoKey, T.user)>>)
               /\ UNCHANGED fcmToken
    /\ UNCHANGED <<smVars, connState, sockRooms, members, messages, pushEnabled, sessions, ncmd>>

\* updateFCMToken after the update of the user's own row: the unique index on
\* users.fcm_token rejects a token another row holds by now
TokenSet(t, dbOk) ==
    /\ At(t, "token", "set")
    /\ LET T == tasks[t]
       IN IF dbOk /\ tokenHolders(T.user, T.token) = {}
          THEN /\ fcmToken' = [fcmToken EXCEPT ![T.user] = T.token]
               /\ Return(t, T, <<Respond("res_200", NoKey, T.user)>>)
          ELSE /\ Return(t, T, <<Respond("res_500", NoKey, T.user)>>)
               /\ UNCHANGED fcmToken
    /\ UNCHANGED <<smVars, connState, sockRooms, members, messages, pushEnabled, sessions, ncmd>>

----------------------------------------------------------------------------
(* SocketAuthMiddleware: the session gate *)

\* Redis holds one key session:<firebase_uid> per logged-in identity; u9 has a
\* session but no row in users.  At start u1, u2 and u9 are logged in
SessionIds == Users \cup {"u9"}
NoSession == <<"none", "none">>
InitSessions == [uid \in SessionIds |-> IF uid \in {"u1", "u2", "u9"} THEN <<"tok", uid>> ELSE NoSession]

\* redis.keys('session:*')
SessionUids == {uid \in SessionIds : sessions[uid] # NoSession}

\* redis.get('session:<uid>'): the session token stored under the key
redisGet(uid) == sessions[uid]

\* socket.handshake.auth.token: none, a token no session holds, or the
\* token of the session of the identity the socket is named after
HandshakeTokens(c) == {Null, <<"tok", "nobody">>, redisGet(c[1])}

\* SocketAuthMiddleware.findSessionByToken: the key whose value is the token,
\* null when no key matches
findSessionByToken(token) ==
    IF \E uid \in SessionUids : redisGet(uid) = token
    THEN CHOOSE uid \in SessionUids : redisGet(uid) = token
    ELSE Null

\* SocketAuthMiddleware.getUserByFirebaseUid: the row of users, or null
getUserByFirebaseUid(uid) == IF uid \in Users THEN uid ELSE Null

\* next(new Error(...)): the handshake is refused, the client gets connect_error
Refuse(c) == Event("connect_error", NoKey, Null, {c}, 0)

\* io.use: authenticate(socket, next) up to `await redis.keys`; without a
\* token it refuses at once.  store says what the session store will do with
\* the lookup: answer or throw, or never settle (pc "stalled": nothing in the
\* middleware resumes it)
Handshake(c, token, store) ==
    /\ connState[c] = "idle"
    /\ IF token = Null
       THEN /\ connState' = [connState EXCEPT ![c] = "refused"]
            /\ Sync(NewTask("auth", c, Null, NoKey, "done"), <<Refuse(c)>>)
       ELSE /\ connState' = [connState EXCEPT ![c] = "auth"]
            /\ Start([NewTask("auth", c, Null, NoKey,
                               IF store = "stalls" THEN "stalled" ELSE "session")
                          EXCEPT !.token = token])
    /\ UNCHANGED <<smVars, sockRooms, dbVars, ncmd>>

\* verifySessionToken after findSessionByToken: 'Invalid session token' when
\* no key matches, the Redis error when the lookup threw, else on to
\* `await User.findOne`
AuthSession(t, redisOk) ==
    /\ At(t, "auth", "session")
    /\ LET T == tasks[t]
           sessionKey == findSessionByToken(T.token)
       IN IF ~redisOk \/ sessionKey = Null
          THEN /\ connState' = [connState EXCEPT ![T.conn] = "refused"]
               /\ Return(t, T, <<Refuse(T.conn)>>)
          ELSE /\ Continue(t, [T EXCEPT !.pc = "user", !.info = sessionKey], <<>>)
               /\ UNCHANGED connState
    /\ UNCHANGED <<smVars, sockRooms, dbVars, ncmd>>

\* a gate that lets a session through without a row in users: that every
\* registered identity is a durable user rests on the `if (!user)` check
AuthUserAnySession(t, dbOk) ==
    /\ At(t, "auth", "user")
    /\ LET T == tasks[t]
       IN IF ~dbOk
          THEN /\ connState' = [connState EXCEPT ![T.conn] = "refused"]
               /\ Return(t, T, <<Refuse(T.conn)>>)
          ELSE /\ connState' = [connState EXCEPT ![T.conn] = "new"]
               /\ Return(t, [T EXCEPT !.user = T.info], <<>>)
    /\ UNCHANGED <<smVars, sockRooms, dbVars, ncmd>>

\* verifySessionToken after getUserByFirebaseUid: 'User not found in database'
\* when there is no row, the query error when it threw, else socket.user is
\* set and next() lets the socket through
AuthUser(t, dbOk) ==
    /\ At(t, "auth", "user")
    /\ LET T == tasks[t]
           user == getUserByFirebaseUid(T.info)
       IN IF ~dbOk \/ user = Null
          THEN /\ connState' = [connState EXCEPT ![T.conn] = "refused"]
               /\ Return(t, T, <<Refuse(T.conn)>>)
          ELSE /\ connState' = [connState EXCEPT ![T.conn] = "new"]
               /\ Return(t, [T EXCEPT !.user = user], <<>>)
    /\ UNCHANGED <<smVars, sockRooms, dbVars, ncmd>>

----------------------------------------------------------------------------
(* routes/auth/profile.js: POST /login, POST /logout; middleware firebaseAuth *)

\* `session_${Date.now()}_${Math.random()...}`: the n-th token POST /login makes
LoginTags == <<"s1", "s2", "s3">>
sessionToken(n, uid) == <<LoginTags[n], uid>>

\* the Firebase ID token of an identity, and the test of firebaseAuth on the
\* bearer token: token.startsWith('session_')
idToken(uid) == <<"idtoken", uid>>
isSessionToken(token) == token[1] # "idtoken"

\* POST /login with email and password: the handler up to `await User.findOne`
Login(uid) ==
    /\ ncmd' = [ncmd EXCEPT !.login = @ + 1]
    /\ Start([NewTask("login", NoConn, uid, NoKey, "find") EXCEPT !.ret = ncmd.login + 1])
    /\ UNCHANGED <<smVars, connState, sockRooms, dbVars>>

\* POST /login after User.findOne({email, password}): 401 without a row (500
\* when the query threw), else on to `await admin.auth().getUserByEmail`
LoginFound(t, dbOk) ==
    /\ At(t, "login", "find")
    /\ LET T == tasks[t]
       IN IF dbOk THEN Continue(t, [T EXCEPT !.pc = "firebase"], <<>>)
          ELSE Return(t, T, <<Respond("res_401", NoKey, T.user)>>)
    /\ UNCHANGED <<smVars, connState, sockRooms, dbVars, ncmd>>

\* POST /login after getUserByEmail: 401 when it threw or the uid differs,
\* else on to `await redis.get(existingSessionKey)`
LoginFirebase(t, ok) ==
    /\ At(t, "login", "firebase")
    /\ LET T == tasks[t]
       IN IF ok THEN Continue(t, [T EXCEPT !.pc = "get"], <<>>)
          ELSE Return(t, T, <<Respond("res_401", NoKey, T.user)>>)
    /\ UNCHANGED <<smVars, connState, sockRooms, dbVars, ncmd>>

\* POST /login after redis.get: with a session, on to `await redis.del`; with
\* none, or when the get threw (caught, logged), the token is made and the
\* handler goes on to `await redis.setEx`
LoginGot(t, redisOk) ==
    /\ At(t, "login", "get")
    /\ LET T == tasks[t]
       IN IF redisOk /\ redisGet(T.user) # NoSession
          THEN Continue(t, [T EXCEPT !.pc = "del"], <<>>)
          ELSE Continue(t, [T EXCEPT !.pc = "set", !.token = sessionToken(T.ret, T.user)], <<>>)
    /\ UNCHANGED <<smVars, connState, sockRooms, dbVars, ncmd>>

\* POST /login after redis.del (a failure is caught and logged): the token is
\* made and the handler goes on to `await redis.setEx`
LoginDeleted(t, redisOk) ==
    /\ At(t, "login", "del")
    /\ LET T == tasks[t]
       IN /\ sessions' = (IF redisOk THEN [sessions EXCEPT ![T.user] = NoSession] ELSE sessions)
          /\ Continue(t, [T EXCEPT !.pc = "set", !.token = sessionToken(T.ret, T.user),
                                   !.saved = redisOk], <<>>)
    /\ UNCHANGED <<smVars, connState, sockRooms, members, messages, fcmToken, pushEnabled, ncmd>>

\* POST /login after redis.setEx (a failure is caught and logged): the
\* response 'Login successful' carries the token
LoginStored(t, redisOk) ==
    /\ At(t, "login", "set")
    /\ LET T == tasks[t]
       IN /\ sessions' = (IF redisOk THEN [sessions EXCEPT ![T.user] = T.token] ELSE sessions)
          /\ Return(t, T, <<Respond("res_200", NoKey, T.user)>>)
    /\ UNCHANGED <<smVars, connState, sockRooms, members, messages, fcmToken, pushEnabled, ncmd>>

\* a request to a route behind firebaseAuth (POST /logout, or another one:
\* "request") with a bearer token: the middleware up to `await redis.keys`
\* (session token) or to `await admin.auth().verifyIdToken` (ID token)
HttpRequest(route, token) ==
    /\ ncmd' = [ncmd EXCEPT !.http = @ + 1]
    /\ Start([NewTask(route, NoConn, Null, NoKey, "auth") EXCEPT !.token = token])
    /\ UNCHANGED <<smVars, connState, sockRooms, dbVars>>

\* firebaseAuth after the lookup of the session token (401 when no key holds
\* it) or after verifyIdToken (the uid of the decoded token): on to
\* `await User.findOne`
FirebaseAuthChecked(t) ==
    /\ t \in TaskIds /\ tasks[t].kind \in {"logout", "request"} /\ tasks[t].pc = "auth"
    /\ LET T == tasks[t]
           firebaseUid == IF isSessionToken(T.token) THEN findSessionByToken(T.token)
                          ELSE T.token[2]
       IN IF firebaseUid = Null
          THEN Return(t, T, <<Respond("res_401", NoKey, Null)>>)
          ELSE Continue(t, [T EXCEPT !.pc = "user", !.user = firebaseUid], <<>>)
    /\ UNCHANGED <<smVars, connState, sockRooms, dbVars, ncmd>>

\* firebaseAuth after User.findOne: 401 without a row or when it threw; with
\* an ID token on to `await storeSessionInRedis`, with a session token next():
\* POST /logout runs to its `await User.update`, another route to its handler
FirebaseAuthUser(t, dbOk) ==
    /\ t \in TaskIds /\ tasks[t].kind \in {"logout", "request"} /\ tasks[t].pc = "user"
    /\ LET T == tasks[t]
       IN IF ~dbOk \/ getUserByFirebaseUid(T.user) = Null
          THEN Return(t, T, <<Respond("res_401", NoKey, T.user)>>)
          ELSE IF ~isSessionToken(T.token)
          THEN Continue(t, [T EXCEPT !.pc = "store"], <<>>)
          ELSE IF T.kind = "logout" THEN Continue(t, [T EXCEPT !.pc = "fcm"], <<>>)
          ELSE Return(t, T, <<>>)
    /\ UNCHANGED <<smVars, connState, sockRooms, dbVars, ncmd>>

\* firebaseAuth after storeSessionInRedis(firebaseUid, token): the ID token is
\* the value of session:<uid> (a failure is caught and logged), then next()
FirebaseAuthStored(t, redisOk) ==
    /\ t \in TaskIds /\ tasks[t].kind \in {"logout", "request"} /\ tasks[t].pc = "store"
    /\ LET T == tasks[t]
       IN /\ sessions' = (IF redisOk THEN [sessions EXCEPT ![T.user] = T.token] ELSE sessions)
          /\ IF T.kind = "logout" THEN Continue(t, [T EXCEPT !.pc = "fcm"], <<>>)
             ELSE Return(t, T, <<>>)
    /\ UNCHANGED <<smVars, connState, sockRooms, members, messages, fcmToken, pushEnabled, ncmd>>

\* POST /logout after User.update({fcm_token: null}) (a failure is caught
\* and logged): on to `await redis.del`
LogoutCleared(t, dbOk) ==
    /\ At(t, "logout", "fcm")
    /\ LET T == tasks[t]
       IN /\ fcmToken' = (IF dbOk THEN [fcmToken EXCEPT ![T.user] = Null] ELSE fcmToken)
          /\ Continue(t, [T EXCEPT !.pc = "del"], <<>>)
    /\ UNCHANGED <<smVars, connState, sockRooms, members, messages, pushEnabled, sessions, ncmd>>

\* POST /logout after redis.del: 'Logged out successfully', or 500 when the
\* del threw.  Nothing here, nor in POST /login, reaches the SocketManager
LogoutDeleted(t, redisOk) ==
    /\ At(t, "logout", "del")
    /\ LET T == tasks[t]
       IN IF redisOk
          THEN /\ sessions' = [sessions EXCEPT ![T.user] = NoSession]
               /\ Return(t, T, <<Respond("res_200", NoKey, T.user)>>)
          ELSE /\ Return(t, T, <<Respond("res_500", NoKey, T.user)>>)
               /\ UNCHANGED sessions
    /\ UNCHANGED <<smVars, connState, sockRooms, members, messages, fcmToken, pushEnabled, ncmd>>

----------------------------------------------------------------------------
(* routes/chat/roomManagement: POST /rooms/:roomId/join *)

\* chat_rooms.max_members of the room: POST /rooms accepts 2..1000
MaxMembers == 2
maxMembers(r) == MaxMembers

\* RoomMember.count({room_id})
memberCount(r) == Cardinality({u \in Users : <<u, r>> \in members})

\* POST /rooms/:roomId/join behind firebaseAuth: the handler up to
\* `await ChatRoom.findByPk`
HttpJoin(uid, r) ==
    /\ ncmd' = [ncmd EXCEPT !.http = @ + 1]
    /\ Start(NewTask("http_join", NoConn, uid, <<"str", r>>, "room"))
    /\ UNCHANGED <<smVars, connState, sockRooms, dbVars>>

\* after findByPk: 500 when it threw, else (the room exists) on to
\* `await RoomMember.findOne`
HttpJoinRoom(t, dbOk) ==
    /\ At(t, "http_join", "room")
    /\ LET T == tasks[t]
       IN IF dbOk THEN Continue(t, [T EXCEPT !.pc = "member"], <<>>)
          ELSE Return(t, T, <<Respond("res_500", T.key, T.user)>>)
    /\ UNCHANGED <<smVars, connState, sockRooms, dbVars, ncmd>>

\* after findOne: 409 for a member, 500 when it threw, else (the room is
\* public) on to `await RoomMember.count`
HttpJoinMember(t, dbOk) ==
    /\ At(t, "http_join", "member")
    /\ LET T == tasks[t]
       IN IF ~dbOk THEN Return(t, T, <<Respond("res_500", T.key, T.user)>>)
          ELSE IF <<T.user, T.key[2]>> \in members
          THEN Return(t, T, <<Respond("res_409", T.key, T.user)>>)
          ELSE Continue(t, [T EXCEPT !.pc = "count"], <<>>)
    /\ UNCHANGED <<smVars, connState, sockRooms, dbVars, ncmd>>

\* after count: 400 'Chat room is full' when memberCount >= room.max_members,
\* 500 when it threw, else on to `await RoomMember.create`
HttpJoinCounted(t, dbOk) ==
    /\ At(t, "http_join", "count")
    /\ LET T == tasks[t]
       IN IF ~dbOk THEN Return(t, T, <<Respond("res_500", T.key, T.user)>>)
          ELSE IF memberCount(T.key[2]) >= maxMembers(T.key[2])
          THEN Return(t, [T EXCEPT !.ret = memberCount(T.key[2])],
                      <<Respond("res_400", T.key, T.user)>>)
          ELSE Continue(t, [T EXCEPT !.pc = "create", !.ret = memberCount(T.key[2])], <<>>)
    /\ UNCHANGED <<smVars, connState, sockRooms, dbVars, ncmd>>

\* after create: the row is in room_members, 'Successfully joined'; 500 when
\* the insert threw, as it does on the unique index (room_id, firebase_uid)
HttpJoinCreated(t, dbOk) ==
    /\ At(t, "http_join", "create")
    /\ LET T == tasks[t]
       IN IF dbOk /\ <<T.user, T.key[2]>> \notin members
          THEN /\ members' = members \cup {<<T.user, T.key[2]>>}
               /\ Return(t, T, <<Respond("res_200", T.key, T.user)>>)
          ELSE /\ Return(t, T, <<Respond("res_500", T.key, T.user)>>)
               /\ UNCHANGED members
    /\ UNCHANGED <<smVars, connState, sockRooms, messages, fcmToken, pushEnabled, sessions, ncmd>>

----------------------------------------------------------------------------
(* Initial state: the server has just started (the constructor's empty     *)
(* maps); the database holds some membership and notification settings.    *)

InitServer ==
    /\ userSockets = EmptyMap
    /\ roomUsers = EmptyMap
    /\ userRooms = EmptyMap
    /\ typingUsers = EmptyMap
    /\ connState = [c \in Conns |-> "new"]
    /\ sockRooms = [r \in RoomIds |-> {}]
    /\ tasks = <<>>
    /\ last = [t |-> NoTask, evs |-> <<>>]
    /\ messages = [x \in Users \X RoomIds |-> 0]
    /\ sessions = InitSessions
    /\ ncmd = [room |-> 0, typing |-> 0, send |-> 0, reg |-> 0, forced |-> 0, login |-> 0, http |-> 0,
               op |-> [x \in Users \X RoomIds |-> "none"]]

\* room_members at start: everybody is a member, or everybody but u2
MemberTables == {Users \X RoomIds, {"u1", "u3"} \X RoomIds}

\* the presence machine: one socket of u1 and one of u2
PConns == {<<"u1", 1>>, <<"u2", 1>>}

InitPresence ==
    /\ InitServer
    /\ members \in MemberTables
    /\ fcmToken = [u \in Users |-> Null]
    /\ pushEnabled = [u \in Users |-> TRUE]

\* the presence machine accepts MaxCmds commands
MoreCmds == ncmd.room + ncmd.typing < MaxCmds

NextPresence ==
    \/ \E c \in PConns : handleConnection(c)
    \/ \E c \in PConns, k \in Keys : MoreCmds /\ JoinRoom(c, k)
    \/ \E t \in TaskIds, dbOk \in BOOLEAN : JoinVerified(t, dbOk)
    \/ \E t \in TaskIds, dbOk \in BOOLEAN : JoinFinish(t, dbOk)
    \/ \E c \in PConns, k \in Keys : MoreCmds /\ LeaveRoom(c, k)
    \/ \E t \in TaskIds, dbOk \in BOOLEAN : LeaveFinish(t, dbOk)
    \/ \E c \in PConns, k \in Keys : MoreCmds /\ handleTypingStart(c, k)
    \/ \E c \in PConns, k \in Keys : MoreCmds /\ handleTypingStop(c, k)
    \/ \E c \in PConns : SocketDisconnect(c)
    \/ \E t \in TaskIds, dbOk \in BOOLEAN : handleDisconnection(t, dbOk)

SpecPresence == InitPresence /\ [][NextPresence]_vars

\* the send path: u1 and u2 connect, join and send over the socket or over
\* HTTP; u3 is a member who stays away and has a delivery token
SConns == {<<"u1", 1>>, <<"u2", 1>>}

InitSend ==
    /\ InitServer
    /\ members \in MemberTables
    /\ fcmToken = [u \in Users |-> IF u = "u3" THEN "t1" ELSE Null]
    /\ pushEnabled = [u \in Users |-> TRUE]

SendSteps ==
    \/ \E t \in TaskIds, dbOk \in BOOLEAN : SendVerified(t, dbOk)
    \/ \E t \in TaskIds, dbOk \in BOOLEAN : SendSaved(t, dbOk)
    \/ \E t \in TaskIds, dbOk \in BOOLEAN : SendUserInfo(t, dbOk)
    \/ \E t \in TaskIds, roomOk \in BOOLEAN : SendRoomInfo(t, roomOk)
    \/ \E t \in TaskIds : SendBroadcast(t)

HttpSendSteps ==
    \/ \E t \in TaskIds, dbOk \in BOOLEAN : HttpSendVerified(t, dbOk)
    \/ \E t \in TaskIds, dbOk \in BOOLEAN : HttpSendSaved(t, dbOk)
    \/ \E t \in TaskIds, dbOk \in BOOLEAN : HttpSendUserInfo(t, dbOk)
    \/ \E t \in TaskIds, roomOk \in BOOLEAN : HttpSendRoomInfo(t, roomOk)
    \/ \E t \in TaskIds : HttpSendBroadcast(t)
    \/ \E t \in TaskIds : HttpSendRespond(t)

DispatchSteps ==
    \/ \E t \in TaskIds, dbOk \in BOOLEAN : DispatchFindAll(t, dbOk)
    \/ \E t \in TaskIds, u \in Users, dbOk \in BOOLEAN : SendToUserFound(t, u, dbOk)
    \/ \E t \in TaskIds, u \in Users, o \in GatewayOutcomes : GatewayRespond(t, u, o)
    \/ \E t \in TaskIds, u \in Users, dbOk \in BOOLEAN : RemovedInvalidToken(t, u, dbOk)
    \/ \E t \in TaskIds : DispatchDone(t)

NumKeys == {k \in Keys : k[1] = "num"}

\* the send path accepts MaxJoins join_room commands and MaxSends sends
MoreJoins == ncmd.room < MaxJoins
MoreSends == ncmd.send < MaxSends

NextSend ==
    \/ \E c \in SConns : handleConnection(c)
    \/ \E c \in SConns, k \in NumKeys : MoreJoins /\ JoinRoom(c, k)
    \/ \E t \in TaskIds : JoinVerified(t, TRUE)
    \/ \E t \in TaskIds : JoinFinish(t, TRUE)
    \/ \E c \in SConns, k \in NumKeys : MoreSends /\ SendMessage(c, k)
    \/ SendSteps
    \/ \E u \in {"u1", "u2"}, r \in RoomIds, valid \in BOOLEAN :
          MoreSends /\ HttpSendMessage(u, r, valid)
    \/ HttpSendSteps
    \/ \E c \in SConns : SocketDisconnect(c)
    \/ \E t \in TaskIds : handleDisconnection(t, TRUE)

SpecSend == InitSend /\ [][NextSend]_vars

\* the room machine: u1 and u2 connect, join and leave room 42 under one form
\* of the room id, and disconnect; the store answers every query
NextRoom ==
    \/ \E c \in PConns : handleConnection(c)
    \/ \E c \in PConns, k \in NumKeys : MoreCmds /\ JoinRoom(c, k)
    \/ \E t \in TaskIds : JoinVerified(t, TRUE)
    \/ \E t \in TaskIds : JoinFinish(t, TRUE)
    \/ \E c \in PConns, k \in NumKeys : MoreCmds /\ LeaveRoom(c, k)
    \/ \E t \in TaskIds : LeaveFinish(t, TRUE)
    \/ \E c \in PConns : SocketDisconnect(c)
    \/ \E t \in TaskIds : handleDisconnection(t, TRUE)

SpecRoom == InitPresence /\ [][NextRoom]_vars

\* the gate: sockets of u1, u2 and u9 go through the handshake; those let
\* through connect, join room 42 and disconnect.  The event loop resumes a
\* middleware whose lookup has settled
AConns == {<<"u1", 1>>, <<"u2", 1>>, <<"u9", 1>>}
StoreOutcomes == {"settles", "stalls"}

InitGate ==
    /\ userSockets = EmptyMap
    /\ roomUsers = EmptyMap
    /\ userRooms = EmptyMap
    /\ typingUsers = EmptyMap
    /\ connState = [c \in Conns |-> "idle"]
    /\ sockRooms = [r \in RoomIds |-> {}]
    /\ tasks = <<>>
    /\ last = [t |-> NoTask, evs |-> <<>>]
    /\ messages = [x \in Users \X RoomIds |-> 0]
    /\ sessions = InitSessions
    /\ ncmd = [room |-> 0, typing |-> 0, send |-> 0, reg |-> 0, forced |-> 0, login |-> 0, http |-> 0,
               op |-> [x \in Users \X RoomIds |-> "none"]]
    /\ members = Users \X RoomIds
    /\ fcmToken = [u \in Users |-> Null]
    /\ pushEnabled = [u \in Users |-> TRUE]

AuthSteps ==
    \/ \E t \in TaskIds, redisOk \in BOOLEAN : AuthSession(t, redisOk)
    \/ \E t \in TaskIds, dbOk \in BOOLEAN : AuthUser(t, dbOk)

NextGate ==
    \/ \E c \in AConns : \E token \in HandshakeTokens(c), store \in StoreOutcomes :
          Handshake(c, token, store)
    \/ AuthSteps
    \/ \E c \in AConns : handleConnection(c)
    \/ \E c \in AConns, k \in NumKeys : MoreJoins /\ JoinRoom(c, k)
    \/ \E t \in TaskIds : JoinVerified(t, TRUE)
    \/ \E t \in TaskIds : JoinFinish(t, TRUE)
    \/ \E c \in AConns : SocketDisconnect(c)
    \/ \E t \in TaskIds : handleDisconnection(t, TRUE)

SpecGate == InitGate /\ [][NextGate]_vars /\ WF_vars(AuthSteps)

\* the eviction machine: u1 and u2 connect and join room 42, sockets close,
\* and a session is invalidated MaxForced times
MoreForced == ncmd.forced < MaxForced

NextForced ==
    \/ \E c \in PConns : handleConnection(c)
    \/ \E c \in PConns, k \in NumKeys : MoreJoins /\ JoinRoom(c, k)
    \/ \E t \in TaskIds : JoinVerified(t, TRUE)
    \/ \E t \in TaskIds : JoinFinish(t, TRUE)
    \/ \E c \in PConns : SocketDisconnect(c)
    \/ \E uid \in {"u1", "u2"} : MoreForced /\ handleForcedDisconnection(uid)
    \/ \E t \in TaskIds : handleDisconnection(t, TRUE)

SpecForced == InitPresence /\ [][NextForced]_vars

\* the room machine with two sockets of u1
TConns == {<<"u1", 1>>, <<"u1", 2>>}

NextTwo ==
    \/ \E c \in TConns : handleConnection(c)
    \/ \E c \in TConns, k \in NumKeys : MoreCmds /\ JoinRoom(c, k)
    \/ \E t \in TaskIds : JoinVerified(t, TRUE)
    \/ \E t \in TaskIds : JoinFinish(t, TRUE)
    \/ \E c \in TConns, k \in NumKeys : MoreCmds /\ LeaveRoom(c, k)
    \/ \E t \in TaskIds : LeaveFinish(t, TRUE)
    \/ \E c \in TConns : SocketDisconnect(c)
    \/ \E t \in TaskIds : handleDisconnection(t, TRUE)

SpecTwo == InitPresence /\ [][NextTwo]_vars

\* the room machine with a user lookup that may throw in the cleanup, and the
\* event loop's guarantee: a handleDisconnection whose getUserInfo has settled
\* (with a row, with null, or caught) is resumed
DropSteps == \E t \in TaskIds, dbOk \in BOOLEAN : handleDisconnection(t, dbOk)

NextDrop ==
    \/ \E c \in PConns : handleConnection(c)
    \/ \E c \in PConns, k \in NumKeys : MoreCmds /\ JoinRoom(c, k)
    \/ \E t \in TaskIds : JoinVerified(t, TRUE)
    \/ \E t \in TaskIds : JoinFinish(t, TRUE)
    \/ \E c \in PConns, k \in NumKeys : MoreCmds /\ LeaveRoom(c, k)
    \/ \E t \in TaskIds : LeaveFinish(t, TRUE)
    \/ \E c \in PConns : SocketDisconnect(c)
    \/ DropSteps

SpecDrop == InitPresence /\ [][NextDrop]_vars /\ WF_vars(DropSteps)

\* the dispatcher: u1 and u2 connect, join under either form of the room id
\* and send; u2 and u3 hold delivery tokens, u3 stays away and may have
\* notifications off; the store answers every query of the send and of the
\* dispatch, the gateway answers as it likes
InitNotify ==
    /\ InitServer
    /\ members = Users \X RoomIds
    /\ fcmToken = [u \in Users |-> CASE u = "u2" -> "t2" [] u = "u3" -> "t1" [] OTHER -> Null]
    /\ pushEnabled \in {[u \in Users |-> u # "u3" \/ b] : b \in BOOLEAN}

NextNotify ==
    \/ \E c \in SConns : handleConnection(c)
    \/ \E c \in SConns, k \in Keys : MoreJoins /\ JoinRoom(c, k)
    \/ \E t \in TaskIds : JoinVerified(t, TRUE)
    \/ \E t \in TaskIds : JoinFinish(t, TRUE)
    \/ \E c \in SConns, k \in Keys : MoreSends /\ SendMessage(c, k)
    \/ \E t \in TaskIds : SendVerified(t, TRUE)
    \/ \E t \in TaskIds : SendSaved(t, TRUE)
    \/ \E t \in TaskIds : SendUserInfo(t, TRUE)
    \/ \E t \in TaskIds : SendRoomInfo(t, TRUE)
    \/ \E t \in TaskIds : SendBroadcast(t)
    \/ \E t \in TaskIds : DispatchFindAll(t, TRUE)
    \/ \E t \in TaskIds, u \in Users : SendToUserFound(t, u, TRUE)
    \/ \E t \in TaskIds, u \in Users, o \in GatewayOutcomes : GatewayRespond(t, u, o)
    \/ \E t \in TaskIds, u \in Users, dbOk \in BOOLEAN : RemovedInvalidToken(t, u, dbOk)
    \/ \E t \in TaskIds : DispatchDone(t)

SpecNotify == InitNotify /\ [][NextNotify]_vars

\* the dispatcher next to the cleanup: u1 and u2 connect, join and may
\* disconnect, u1 sends; u2 and u3 hold delivery tokens and have
\* notifications on; the store answers every query, the gateway accepts
InitSkip ==
    /\ InitServer
    /\ members = Users \X RoomIds
    /\ fcmToken = [u \in Users |-> CASE u = "u2" -> "t2" [] u = "u3" -> "t1" [] OTHER -> Null]
    /\ pushEnabled = [u \in Users |-> TRUE]

NextSkip ==
    \/ \E c \in SConns : handleConnection(c)
    \/ \E c \in SConns, k \in NumKeys : MoreJoins /\ JoinRoom(c, k)
    \/ \E t \in TaskIds : JoinVerified(t, TRUE)
    \/ \E t \in TaskIds : JoinFinish(t, TRUE)
    \/ \E k \in NumKeys : MoreSends /\ SendMessage(<<"u1", 1>>, k)
    \/ \E t \in TaskIds : SendVerified(t, TRUE)
    \/ \E t \in TaskIds : SendSaved(t, TRUE)
    \/ \E t \in TaskIds : SendUserInfo(t, TRUE)
    \/ \E t \in TaskIds : SendRoomInfo(t, TRUE)
    \/ \E t \in TaskIds : SendBroadcast(t)
    \/ \E t \in TaskIds : DispatchFindAll(t, TRUE)
    \/ \E t \in TaskIds, u \in Users : SendToUserFound(t, u, TRUE)
    \/ \E t \in TaskIds, u \in Users : GatewayRespond(t, u, "ok")
    \/ \E t \in TaskIds : DispatchDone(t)
    \/ \E c \in SConns : SocketDisconnect(c)
    \/ \E t \in TaskIds : handleDisconnection(t, TRUE)

SpecSkip == InitSkip /\ [][NextSkip]_vars

\* the send path next to its dispatch: u1 connects, joins, sends and may
\* disconnect; every store query may fail; the gateway may answer or not.
\* The steps of handleSendMessage are taken once they can be (the store
\* settles every query and the event loop resumes the handler); nothing is
\* assumed of the dispatch or of the gateway
FConns == {<<"u1", 1>>}

NextFair ==
    \/ \E c \in FConns : handleConnection(c)
    \/ \E c \in FConns, k \in NumKeys : MoreJoins /\ JoinRoom(c, k)
    \/ \E t \in TaskIds : JoinVerified(t, TRUE)
    \/ \E t \in TaskIds : JoinFinish(t, TRUE)
    \/ \E c \in FConns, k \in NumKeys : MoreSends /\ SendMessage(c, k)
    \/ SendSteps
    \/ DispatchSteps
    \/ \E c \in FConns : SocketDisconnect(c)
    \/ \E t \in TaskIds : handleDisconnection(t, TRUE)

SpecFair == InitNotify /\ [][NextFair]_vars /\ WF_vars(SendSteps)

\* the token machine: u1 posts messages over HTTP while nobody is connected,
\* so every dispatch considers u2 and u3; u3 holds a token, u2 registers a
\* fresh one or the one u3 holds; the store answers the queries of the route
\* and of the dispatch, the gateway answers as it likes
InitToken ==
    /\ InitServer
    /\ members = Users \X RoomIds
    /\ fcmToken = [u \in Users |-> IF u = "u3" THEN "t1" ELSE Null]
    /\ pushEnabled = [u \in Users |-> TRUE]

RegTokens == {"t1", "t3"}

NextToken ==
    \/ \E r \in RoomIds : ncmd.send < MaxDispatches /\ HttpSendMessage("u1", r, TRUE)
    \/ \E t \in TaskIds : HttpSendVerified(t, TRUE)
    \/ \E t \in TaskIds : HttpSendSaved(t, TRUE)
    \/ \E t \in TaskIds : HttpSendUserInfo(t, TRUE)
    \/ \E t \in TaskIds : HttpSendRoomInfo(t, TRUE)
    \/ \E t \in TaskIds : HttpSendBroadcast(t)
    \/ \E t \in TaskIds : HttpSendRespond(t)
    \/ \E t \in TaskIds : DispatchFindAll(t, TRUE)
    \/ \E t \in TaskIds, u \in Users : SendToUserFound(t, u, TRUE)
    \/ \E t \in TaskIds, u \in Users, o \in GatewayOutcomes : GatewayRespond(t, u, o)
    \/ \E t \in TaskIds, u \in Users : RemovedInvalidToken(t, u, TRUE)
    \/ \E t \in TaskIds : DispatchDone(t)
    \/ \E tok \in RegTokens : ncmd.reg < MaxRegs /\ UpdateFCMToken("u2", tok)
    \/ \E t \in TaskIds, dbOk \in BOOLEAN : TokenFound(t, dbOk)
    \/ \E t \in TaskIds, dbOk \in BOOLEAN : TokenCleared(t, dbOk)
    \/ \E t \in TaskIds, dbOk \in BOOLEAN : TokenSet(t, dbOk)

SpecToken == InitToken /\ [][NextToken]_vars

\* the token machine with one message and one registration by u2 or by u3,
\* who holds a token already; the store answers every query
NextPrune ==
    \/ \E r \in RoomIds : MoreSends /\ HttpSendMessage("u1", r, TRUE)
    \/ \E t \in TaskIds : HttpSendVerified(t, TRUE)
    \/ \E t \in TaskIds : HttpSendSaved(t, TRUE)
    \/ \E t \in TaskIds : HttpSendUserInfo(t, TRUE)
    \/ \E t \in TaskIds : HttpSendRoomInfo(t, TRUE)
    \/ \E t \in TaskIds : HttpSendBroadcast(t)
    \/ \E t \in TaskIds : HttpSendRespond(t)
    \/ \E t \in TaskIds : DispatchFindAll(t, TRUE)
    \/ \E t \in TaskIds, u \in Users : SendToUserFound(t, u, TRUE)
    \/ \E t \in TaskIds, u \in Users, o \in GatewayOutcomes : GatewayRespond(t, u, o)
    \/ \E t \in TaskIds, u \in Users : RemovedInvalidToken(t, u, TRUE)
    \/ \E t \in TaskIds : DispatchDone(t)
    \/ \E u \in {"u2", "u3"}, tok \in RegTokens : ncmd.reg < MaxRegs /\ UpdateFCMToken(u, tok)
    \/ \E t \in TaskIds : TokenFound(t, TRUE)
    \/ \E t \in TaskIds : TokenCleared(t, TRUE)
    \/ \E t \in TaskIds : TokenSet(t, TRUE)

SpecPrune == InitToken /\ [][NextPrune]_vars

\* the registrations alone: u1, u2 and u3 call POST /fcm-token, MaxUpdates
\* calls in all, with a fresh token or the one u3 holds; any query may fail
MaxUpdates == 2

NextUnique ==
    \/ \E u \in Users, tok \in RegTokens : ncmd.reg < MaxUpdates /\ UpdateFCMToken(u, tok)
    \/ \E t \in TaskIds, dbOk \in BOOLEAN : TokenFound(t, dbOk)
    \/ \E t \in TaskIds, dbOk \in BOOLEAN : TokenCleared(t, dbOk)
    \/ \E t \in TaskIds, dbOk \in BOOLEAN : TokenSet(t, dbOk)

SpecUnique == InitToken /\ [][NextUnique]_vars

\* the session store alone: u1 logs in MaxLogins times, and calls POST /logout
\* or another route behind firebaseAuth MaxRequests times, with its current
\* session token or its Firebase ID token; Redis answers every command
MaxLogins == 2
MaxRequests == 1

firstToken(uid) == InitSessions[uid]
BearerTokens(uid) == {idToken(uid)} \cup ({redisGet(uid)} \ {NoSession})

LoginSteps ==
    \/ \E t \in TaskIds, dbOk \in BOOLEAN : LoginFound(t, dbOk)
    \/ \E t \in TaskIds, ok \in BOOLEAN : LoginFirebase(t, ok)
    \/ \E t \in TaskIds : LoginGot(t, TRUE)
    \/ \E t \in TaskIds : LoginDeleted(t, TRUE)
    \/ \E t \in TaskIds : LoginStored(t, TRUE)

RequestSteps ==
    \/ \E t \in TaskIds : FirebaseAuthChecked(t)
    \/ \E t \in TaskIds, dbOk \in BOOLEAN : FirebaseAuthUser(t, dbOk)
    \/ \E t \in TaskIds : FirebaseAuthStored(t, TRUE)
    \/ \E t \in TaskIds, dbOk \in BOOLEAN : LogoutCleared(t, dbOk)
    \/ \E t \in TaskIds : LogoutDeleted(t, TRUE)

NextLogin ==
    \/ ncmd.login < MaxLogins /\ Login("u1")
    \/ LoginSteps
    \/ \E route \in {"logout", "request"}, token \in BearerTokens("u1") :
          ncmd.http < MaxRequests /\ HttpRequest(route, token)
    \/ RequestSteps

SpecLogin == InitGate /\ [][NextLogin]_vars

\* sessions next to a socket: u1's client opens a socket with the session
\* token of its last login, joins a room and may disconnect; u1 logs in again
\* (MaxRelogins times) or logs out or calls another route (MaxRequests
\* requests).  Redis and the database answer, and every handler that can
\* resume is resumed
MaxRelogins == 1
MaxSessionJoins == 1

XConns == {<<"u1", 1>>}

SessionSteps ==
    \/ \E t \in TaskIds : AuthSession(t, TRUE)
    \/ \E t \in TaskIds : AuthUser(t, TRUE)
    \/ \E c \in XConns : handleConnection(c)
    \/ \E t \in TaskIds : JoinVerified(t, TRUE)
    \/ \E t \in TaskIds : JoinFinish(t, TRUE)
    \/ \E t \in TaskIds : handleDisconnection(t, TRUE)
    \/ \E t \in TaskIds : LoginFound(t, TRUE)
    \/ \E t \in TaskIds : LoginFirebase(t, TRUE)
    \/ \E t \in TaskIds : LoginGot(t, TRUE)
    \/ \E t \in TaskIds : LoginDeleted(t, TRUE)
    \/ \E t \in TaskIds : LoginStored(t, TRUE)
    \/ \E t \in TaskIds : FirebaseAuthChecked(t)
    \/ \E t \in TaskIds : FirebaseAuthUser(t, TRUE)
    \/ \E t \in TaskIds : FirebaseAuthStored(t, TRUE)
    \/ \E t \in TaskIds : LogoutCleared(t, TRUE)
    \/ \E t \in TaskIds : LogoutDeleted(t, TRUE)

NextSession ==
    \/ \E c \in XConns : Handshake(c, firstToken(ConnUser(c)), "settles")
    \/ \E c \in XConns, k \in NumKeys : ncmd.room < MaxSessionJoins /\ JoinRoom(c, k)
    \/ \E c \in XConns : SocketDisconnect(c)
    \/ ncmd.login < MaxRelogins /\ Login("u1")
    \/ \E route \in {"logout", "request"}, token \in BearerTokens("u1") :
          ncmd.http < MaxRequests /\ HttpRequest(route, token)
    \/ SessionSteps

SpecSession == InitGate /\ [][NextSession]_vars /\ WF_vars(SessionSteps)

\* the join route alone: room 42 has max_members = MaxMembers and its owner
\* u1 as only member; u2 and u3 send MaxJoinRequests requests in all
MaxJoinRequests == 3

InitJoin ==
    /\ InitServer
    /\ members = {<<"u1", r>> : r \in RoomIds}
    /\ fcmToken = [u \in Users |-> Null]
    /\ pushEnabled = [u \in Users |-> TRUE]

NextJoin ==
    \/ \E u \in {"u2", "u3"}, r \in RoomIds : ncmd.http < MaxJoinRequests /\ HttpJoin(u, r)
    \/ \E t \in TaskIds, dbOk \in BOOLEAN : HttpJoinRoom(t, dbOk)
    \/ \E t \in TaskIds, dbOk \in BOOLEAN : HttpJoinMember(t, dbOk)
    \/ \E t \in TaskIds, dbOk \in BOOLEAN : HttpJoinCounted(t, dbOk)
    \/ \E t \in TaskIds, dbOk \in BOOLEAN : HttpJoinCreated(t, dbOk)

SpecJoin == InitJoin /\ [][NextJoin]_vars

----------------------------------------------------------------------------
(* Properties of the presence machine *)

KeysOf(r) == {k \in Keys : k[2] = r}

\* the present-set and the typing-set of room r, whatever form its id was sent in
PresentSet(r) == UNION {RoomStatsMembers(k) : k \in KeysOf(r)}
TypingSet(r) == UNION {RoomStatsTyping(k) : k \in KeysOf(r)}

\* uid had a socket, none is open now, and no handleDisconnection of uid is
\* still running: the disconnect cleanup of uid has run
CleanedUp(uid) ==
    /\ \E c \in Conns : ConnUser(c) = uid /\ connState[c] = "closed"
    /\ \A c \in Conns : ConnUser(c) = uid => ~Open(c)
    /\ \A t \in TaskIds : ~(tasks[t].kind = "disconnect" /\ tasks[t].user = uid)

\* C1: once the disconnect cleanup of an identity has run, no room's present
\* set holds the identity, whatever handlers of the identity were in flight
C1_AbsentAfterCleanup ==
    \A uid \in Users, k \in Keys :
        CleanedUp(uid) => uid \notin getActiveUsersInRoom(k) \cup PresentSet(k[2])

\* the step just taken was the cleanup of handleDisconnection
JustCleaned == last.t.kind = "disconnect" /\ last.t.pc = "done"

\* the rooms handleDisconnection just took the identity out of
JustLeft == {last.evs[i].key : i \in {j \in 1..Len(last.evs) : last.evs[j].ev = "user_left"}}

\* C2: when handleDisconnection(i) has completed, i is in the typing set of
\* none of the rooms it was taken out of
C2_TypingClearedOnDisconnect ==
    JustCleaned => \A k \in JustLeft : last.t.user \notin RoomStatsTyping(k)

\* C3: the typing set of every room is a subset of its present set
C3_TypingSubsetOfPresent ==
    \A r \in RoomIds : TypingSet(r) \subseteq PresentSet(r)

----------------------------------------------------------------------------
(* The send path *)

\* the sendToRoomMembers calls that have not returned
Dispatches == {t \in TaskIds : tasks[t].kind = "dispatch"}

\* what the actor alone sees: the socket's error event, the route's 4xx and 5xx
ErrorEvents == {"error", "res_400", "res_403", "res_500"}

\* the step just taken belongs to a send (socket or HTTP) of somebody without
\* a room_members row for the room
NonMemberSend ==
    /\ last.t.kind \in {"send", "http_send"}
    /\ <<last.t.user, last.t.key[2]>> \notin members

\* C4: a send, over the socket or over HTTP, by an identity without a
\* RoomMember row for the room never gets past the membership check: no step
\* of it creates a message, starts a dispatch or emits message_received; it
\* ends with one error, which goes to the actor alone
C4_NonMemberSendRejected ==
    [][NonMemberSend' =>
         /\ last'.t.pc \in {"verify", "done"}
         /\ ~last'.t.saved
         /\ messages' = messages
         /\ Cardinality(Dispatches') = Cardinality(Dispatches)
         /\ last'.t.pc = "done" => Len(last'.evs) = 1
         /\ \A i \in 1..Len(last'.evs) :
               /\ last'.evs[i].ev \in ErrorEvents
               /\ last'.evs[i].to \subseteq {last'.t.conn}]_vars

\* a non-member's send_message has just been refused with an error on its own
\* socket while another socket sits in the room
C4_Witness ==
    /\ NonMemberSend
    /\ last.t.kind = "send" /\ last.t.pc = "done"
    /\ Len(last.evs) = 1 /\ last.evs[1].to = {last.t.conn}
    /\ ToRoom(last.t.key) # {}
    /\ \A x \in DOMAIN messages : messages[x] = 0

\* the connections present in room r: the live connections of the identities
\* the room's present-set holds
PresentConns(r) == {c \in OpenConns : ConnUser(c) \in PresentSet(r)}

\* handleSendMessage has just returned
SendReturned == last.t.kind = "send" /\ last.t.pc = "done"

FailedSave == SendReturned /\ last.t.isMember /\ ~last.t.saved

\* C6: when ChatMessage.create rejects during send_message the handler ends
\* in that step with one emit, an error to the initiating socket: no message
\* row, no message_received, no message_sent, no dispatch started
C6_FailedSaveIsPrivate ==
    [][FailedSave' =>
         /\ messages' = messages
         /\ Cardinality(Dispatches') = Cardinality(Dispatches)
         /\ Len(last'.evs) = 1
         /\ last'.evs[1].ev = "error"
         /\ last'.evs[1].to \subseteq {last'.t.conn}]_vars

\* a member's save has just failed while somebody else sits in the room: the
\* sender got the error
C6_Witness ==
    /\ FailedSave
    /\ Len(last.evs) = 1
    /\ last.evs[1].to = {last.t.conn}
    /\ \E c \in ToRoom(last.t.key) : c # last.t.conn

\* C7: within one send_message the order is persist, broadcast, acknowledge:
\* wherever message_sent is emitted the message row was created in an earlier
\* step of the handler and message_received was emitted before it
C7_PersistBroadcastAck ==
    \A i \in 1..Len(last.evs) :
        (last.t.kind = "send" /\ last.evs[i].ev = "message_sent") =>
            /\ last.t.saved
            /\ messages[<<last.t.user, last.t.key[2]>>] >= 1
            /\ \E j \in 1..(i - 1) : last.evs[j].ev = "message_received"

\* the sender has just got message_sent for its one persisted message, after
\* the broadcast reached it
C7_Witness ==
    /\ SendReturned /\ last.t.saved
    /\ Len(last.evs) = 2
    /\ last.evs[2].ev = "message_sent" /\ last.evs[2].to = {last.t.conn}
    /\ last.evs[1].to = {last.t.conn}
    /\ messages[<<last.t.user, last.t.key[2]>>] = 1

----------------------------------------------------------------------------
(* The dispatcher *)

\* a send whose message is persisted has not returned yet
SendSavedPending == \E t \in TaskIds : tasks[t].kind = "send" /\ tasks[t].saved

\* handleSendMessage has just emitted message_received and message_sent
SendAcked ==
    /\ SendReturned /\ last.t.saved
    /\ Len(last.evs) = 2
    /\ last.evs[1].ev = "message_received"
    /\ last.evs[2].ev = "message_sent"

\* C8: the dispatch never blocks or fails the send path: once the message of
\* a send_message is persisted, and with the store settling the lookups, the
\* message is broadcast and acknowledged, whether the gateway answers, rejects
\* or stays silent and whether sendToRoomMembers fails or not
C8_SendNeverWaitsForDispatch == SendSavedPending ~> SendAcked

\* the send has just been acknowledged while its dispatch still waits for
\* the gateway's answer about u3
C8_Witness ==
    /\ SendAcked
    /\ \E d \in Dispatches :
          /\ tasks[d].pc = "all"
          /\ "u3" \in DOMAIN tasks[d].subs
          /\ tasks[d].subs["u3"].st = "sending"

\* the identities a sendToRoomMembers call has submitted a push for
Pushed(T) == {u \in DOMAIN T.subs : T.subs[u].st \in SubPushed}

\* C9: sendToRoomMembers never submits a push for the sender, for an identity
\* that was in the room's present-set when the dispatch read it, or for an
\* identity with notifications off or without a token
C9_NoPushToSenderPresentOrDisabled ==
    last.t.kind = "dispatch" =>
        \A u \in Pushed(last.t) :
            /\ u # last.t.user
            /\ u \notin last.t.present
            /\ pushEnabled[u]
            /\ last.t.subs[u].token # Null

\* the identities a dispatch owes a push: durable members of the room other
\* than the sender, not in the present-set the dispatch read, with
\* notifications on and a token (held now, or submitted by this dispatch
\* before removeInvalidToken cleared it)
Eligible(T) ==
    {u \in Users : /\ <<u, T.key[2]>> \in members
                   /\ u # T.user
                   /\ u \notin T.present
                   /\ pushEnabled[u]
                   /\ \/ fcmToken[u] # Null
                      \/ u \in DOMAIN T.subs /\ T.subs[u].token # Null}

\* C10: once every sendToUser call of a dispatch has looked its user up, the
\* identities with a push submitted (one messaging.send each) are exactly the
\* eligible ones
C10_PushExactlyTheEligible ==
    (/\ last.t.kind = "dispatch" /\ last.t.pc = "all"
     /\ \A u \in DOMAIN last.t.subs : last.t.subs[u].st # "findUser")
        => Pushed(last.t) = Eligible(last.t)

----------------------------------------------------------------------------
(* Tokens and the result of a dispatch *)

\* the sendToUser calls for u, over all dispatches, that are in state st
NumSub(u, st) ==
    Cardinality({t \in TaskIds : /\ tasks[t].kind = "dispatch"
                                 /\ u \in DOMAIN tasks[t].subs
                                 /\ tasks[t].subs[u].st = st})

DispatchReturned == last.t.kind = "dispatch" /\ last.t.pc = "done"

\* the members a dispatch started a sendToUser call for
Candidates(T) == {u \in DOMAIN T.subs : T.subs[u].st # "skipped"}

\* C12: sendToRoomMembers never raises: whatever the store and the gateway
\* do, it resolves with the number of pushes the gateway accepted, a number
\* between 0 and the number of eligible candidates, and by then the call for
\* every candidate has run to its end, whatever happened to the others
C12_DispatchResolvesWithCount ==
    /\ \A t \in Dispatches : tasks[t].pc \in {"findAll", "all"}
    /\ DispatchReturned =>
          /\ last.t.ret = Cardinality({u \in DOMAIN last.t.subs : last.t.subs[u].st = "sent"})
          /\ last.t.ret >= 0
          /\ last.t.ret <= Cardinality(Candidates(last.t))
          /\ \A u \in Candidates(last.t) : last.t.subs[u].st \in SubDone

\* a dispatch has just resolved with 1: the gateway refused u2's token, the
\* removal of that token failed in the store, and the push for u3 went through
C12_Witness ==
    /\ DispatchReturned
    /\ last.t.ret = 1
    /\ Candidates(last.t) = {"u2", "u3"}
    /\ last.t.subs["u2"].st = "removed" /\ fcmToken["u2"] # Null
    /\ last.t.subs["u3"].st = "sent"

----------------------------------------------------------------------------
(* Order of the events of one connection *)

\* the handler has its broadcast to the room still to come, whatever the
\* store answers from here on
WillBroadcast(T) ==
    \/ T.kind \in {"join", "leave"} /\ T.pc = "userinfo"
    \/ T.kind = "send" /\ T.saved

\* the pending handlers that certainly started before the handler that takes
\* the step: all of them when the step is a listener without awaits, those
\* ahead of the handler that returns otherwise
StartedBeforeActor ==
    IF tasks' = tasks THEN TaskIds
    ELSE IF Len(tasks') < Len(tasks)
    THEN {j \in TaskIds : \A t \in TaskIds : tasks' = Remove(t) => j < t}
    ELSE {}

\* the step broadcasts an event of a socket's command to room r
BroadcastsTo(r) ==
    /\ last'.t.conn # NoConn
    /\ last'.t.kind # "disconnect"
    /\ \E i \in 1..Len(last'.evs) : last'.evs[i].room = r

\* C13: within a room the events of one connection's commands are broadcast
\* in the order the commands were accepted: no command's event is broadcast
\* while a command the same connection sent earlier for the same room has its
\* own broadcast still to come
C13_BroadcastInAcceptanceOrder ==
    [][\A j \in StartedBeforeActor :
         ~(/\ tasks[j].conn = last'.t.conn
           /\ tasks[j].kind \in {"join", "leave", "send"}
           /\ WillBroadcast(tasks[j])
           /\ BroadcastsTo(tasks[j].key[2]))]_vars

----------------------------------------------------------------------------
(* Join and leave *)

\* no handler of uid that touches presence is pending, and no socket of uid
\* has closed
Settled(uid) ==
    /\ \A t \in TaskIds : tasks[t].user = uid => tasks[t].kind \notin {"join", "leave", "disconnect"}
    /\ \A c \in Conns : ConnUser(c) = uid => connState[c] # "closed"

\* C14: once every join_room / leave_room handler of (i, r) has finished, i is
\* in the present-set of r when the last command accepted was a join_room by
\* a durable member, and is not when it was a leave_room
C14_LastCommandWins ==
    \A uid \in Users, r \in RoomIds :
        Settled(uid) =>
            /\ (ncmd.op[<<uid, r>>] = "join" /\ <<uid, r>> \in members) => uid \in PresentSet(r)
            /\ ncmd.op[<<uid, r>>] = "leave" => uid \notin PresentSet(r)

\* the present-set of room r as the server reports it, and the rooms uid has
\* joined
presentMembers(r) == getActiveUsersInRoom(<<"num", r>>)
joinedRooms(uid) == {getUserRooms(uid)[n][2] : n \in 1..Len(getUserRooms(uid))}

\* the last step was the addUserToRoom of a join_room of uid for r, the
\* removeUserFromRoom of a leave_room of uid for r
JoinSucceeded(uid, r) ==
    last.t.kind = "join" /\ last.t.pc = "userinfo" /\ last.t.user = uid /\ last.t.key[2] = r
LeaveApplied(uid, r) ==
    last.t.kind = "leave" /\ last.t.pc = "done" /\ last.t.user = uid /\ last.t.key[2] = r

\* C15: when a join_room of i for r succeeds, the present-set of r contains i
\* and the joined rooms of i contain r; i stays in the present-set until a
\* leave_room of i for r or a disconnect of i; when a leave_room of i for r
\* is applied, the present-set of r does not contain i
C15_PresentFromJoinToLeave ==
    [][\A uid \in Users, r \in RoomIds :
         /\ JoinSucceeded(uid, r)' => (uid \in presentMembers(r)' /\ r \in joinedRooms(uid)')
         /\ LeaveApplied(uid, r)' => uid \notin presentMembers(r)'
         /\ (uid \in presentMembers(r) /\ uid \notin presentMembers(r)') =>
                \/ LeaveApplied(uid, r)'
                \/ last'.t.kind = "disconnect" /\ last'.t.user = uid]_vars

\* C16: an identity enters roomUsers[r] only in the step of a join_room of
\* that identity for r whose membership check has just succeeded, the identity
\* being a durable member of r in that step
C16_PresenceOnlyByVerifiedJoin ==
    [][\A uid \in Users, k \in Keys :
         (uid \notin RoomStatsMembers(k) /\ uid \in RoomStatsMembers(k)') =>
             /\ last'.t.kind = "join" /\ last'.t.pc = "userinfo"
             /\ last'.t.user = uid /\ last'.t.key = k
             /\ last'.t.isMember
             /\ <<uid, k[2]>> \in members]_vars

\* a join_room of u2, who is not a member, has just been rejected while u1, a
\* member, is present in room 42
C16_Witness ==
    /\ last.t.kind = "join" /\ last.t.pc = "done" /\ last.t.user = "u2" /\ ~last.t.isMember
    /\ <<"u2", 42>> \notin members
    /\ PresentSet(42) = {"u1"}

\* the step just taken belongs to a join_room of somebody without a
\* room_members row for the room; a join_room has just returned without a
\* positive membership result
JoinOfNonMember ==
    last.t.kind = "join" /\ <<last.t.user, last.t.key[2]>> \notin members
JoinRejected ==
    last.t.kind = "join" /\ last.t.pc = "done" /\ ~last.t.isMember

\* C17: a join_room of a non-member never gets past the membership check, and
\* a join_room that fails (no membership row, or the check threw) changes
\* neither the registry nor the present-, joined- and typing-sets nor the
\* adapter rooms, and ends with exactly one event: an error delivered to the
\* initiating connection alone
C17_FailedJoinChangesNothing ==
    [][/\ JoinOfNonMember' => (last'.t.pc \in {"verify", "done"} /\ ~last'.t.isMember)
       /\ (JoinOfNonMember' \/ JoinRejected') =>
             /\ smVars' = smVars
             /\ sockRooms' = sockRooms
             /\ last'.t.pc = "done" => Len(last'.evs) = 1
             /\ \A i \in 1..Len(last'.evs) :
                   /\ last'.evs[i].ev = "error"
                   /\ last'.evs[i].to \subseteq {last'.t.conn}]_vars

\* the membership check of a join_room of u1, a member, has thrown; the error
\* went to the socket of u1 while another socket sits in the room
C17_Witness ==
    /\ JoinRejected /\ ~JoinOfNonMember
    /\ last.t.user = "u1"
    /\ Len(last.evs) = 1 /\ last.evs[1].to = {last.t.conn}
    /\ ToRoom(last.t.key) # {}
    /\ "u1" \notin PresentSet(42)

\* a join_room that passed the membership check has just returned
JoinFinished ==
    last.t.kind = "join" /\ last.t.pc = "done" /\ last.t.isMember

\* C18: a join_room that passed the membership check ends with user_joined
\* addressed to the room, whose present-set contains the joiner in that
\* step, followed by room_joined to the initiating connection alone, whatever
\* leave_room or disconnect of the joiner ran between the awaits of the join
C18_JoinedBroadcastWhilePresent ==
    [][JoinFinished' =>
         /\ Len(last'.evs) = 2
         /\ last'.evs[1].ev = "user_joined"
         /\ last'.evs[1].room = RoomName(last'.t.key)
         /\ last'.t.user \in presentMembers(last'.t.key[2])
         /\ last'.evs[2].ev = "room_joined"
         /\ last'.evs[2].to \subseteq {last'.t.conn}]_vars

\* a leave_room has just returned
LeaveReturned == last.t.kind = "leave" /\ last.t.pc = "done"

\* C19: a leave_room ends with exactly two events: first user_left, delivered
\* to the sockets the room held before the leaver's socket was taken out (the
\* leaver's own socket among them when it was in the room), then room_left to
\* the initiating connection alone; after the step the leaver's socket is out
\* of the room and the leaver is out of the room's present-set
C19_LeftBroadcastBeforeRemoval ==
    [][\A k \in Keys :
         (LeaveReturned' /\ last'.t.key = k) =>
             /\ Len(last'.evs) = 2
             /\ last'.evs[1].ev = "user_left"
             /\ last'.evs[1].to = ToRoom(k)
             /\ last'.evs[1].to \ {last'.t.conn} = ToRoom(k)'
             /\ last'.t.conn \notin sockRooms'[RoomName(k)]
             /\ last'.t.user \notin presentMembers(k[2])'
             /\ last'.evs[2].ev = "room_left"
             /\ last'.evs[2].to \subseteq {last'.t.conn}]_vars

\* the user_left events of the step just taken that carry the key k
LeftEvents(k) == {i \in 1..Len(last.evs) : last.evs[i].ev = "user_left" /\ last.evs[i].key = k}

\* C20: the cleanup of handleDisconnection(i) emits, for every room id in the
\* joined rooms of i, one user_left to the sockets of that room, and nothing
\* else before the closing offline status; when it ends i is in no room's
\* present-set, has no joined rooms and is out of the registry; the cleanup
\* runs without an await, so no other handler sees i unregistered and still
\* present
C20_DisconnectLeavesRoomsThenRegistry ==
    [][\A uid \in Users :
         (JustCleaned' /\ last'.t.user = uid) =>
             /\ Len(last'.evs) = Len(getUserRooms(uid)) + 1
             /\ \A n \in 1..Len(getUserRooms(uid)) :
                   /\ last'.evs[n].ev = "user_left"
                   /\ last'.evs[n].key = getUserRooms(uid)[n]
                   /\ last'.evs[n].to = ToRoom(getUserRooms(uid)[n])
                   /\ uid \in RoomStatsMembers(getUserRooms(uid)[n])
             /\ last'.evs[Len(last'.evs)].ev = "status_offline"
             /\ \A k \in Keys : uid \notin RoomStatsMembers(k)'
             /\ getUserRooms(uid)' = <<>>
             /\ uid \notin getConnectedUsers']_vars

\* the cleanup of a disconnected identity has just told another socket in
\* room 42 that the identity left, and then everybody that it is offline
C20_Witness ==
    /\ JustCleaned
    /\ Len(last.evs) = 2
    /\ last.evs[1].ev = "user_left" /\ last.evs[1].to # {}
    /\ last.evs[2].ev = "status_offline"
    /\ last.t.user \notin PresentSet(42) \cup getConnectedUsers

----------------------------------------------------------------------------
(* Disconnect, registry, admission *)

\* a socket of uid has closed and its handleDisconnection has not returned
Disconnecting(uid) ==
    \E t \in TaskIds : tasks[t].kind = "disconnect" /\ tasks[t].user = uid

\* uid is in the registry, in no room's present-set
Registered(uid) == uid \in getConnectedUsers
PresentNowhere(uid) == \A k \in Keys : uid \notin RoomStatsMembers(k)

\* C21: every disconnect of a socket leads to a state in which its identity
\* is out of the registry and out of every present-set, also when the user
\* lookup at the start of the cleanup fails
C21_DisconnectCleansUp ==
    \A c \in PConns :
        Disconnecting(ConnUser(c)) ~> (~Registered(ConnUser(c)) /\ PresentNowhere(ConnUser(c)))

\* the cleanup of an identity that was present in room 42 has just run with a
\* failed user lookup
C21_Witness ==
    /\ JustCleaned /\ last.t.info = Null
    /\ Len(last.evs) = 2 /\ last.evs[1].ev = "user_left"
    /\ ~Registered(last.t.user) /\ PresentNowhere(last.t.user)

\* handleConnection has just admitted a socket
JustConnected == last.t.kind = "connect"

\* C22: the registry holds one socket per identity, a socket of that identity;
\* when a socket is admitted the registry returns it for its identity, whatever
\* it held before; the step closes no socket, takes none out of a room, and
\* emits only the server-wide online status, so an earlier socket of the
\* identity stays open and keeps issuing commands
C22_LatestConnectionWins ==
    [][/\ \A uid \in DOMAIN userSockets' :
             userSockets'[uid] \in Conns /\ ConnUser(userSockets'[uid]) = uid
       /\ (JustConnected' /\ connState' # connState) =>
             /\ userSockets'[last'.t.user] = last'.t.conn
             /\ \A c \in Conns : Open(c) => Open(c)'
             /\ sockRooms' = sockRooms
             /\ Len(last'.evs) = 1
             /\ last'.evs[1].ev = "status_online"
             /\ last'.evs[1].room = 0
             /\ last'.evs[1].to = OpenConns']_vars

\* the first socket of u1 has just sent a join_room although the registry
\* holds the second socket of u1
C22_Witness ==
    /\ last.t.kind = "join" /\ last.t.pc = "verify" /\ last.t.conn = <<"u1", 1>>
    /\ Registered("u1") /\ userSockets["u1"] = <<"u1", 2>>
    /\ Open(<<"u1", 1>>) /\ Open(<<"u1", 2>>)

\* the middleware has just finished with a handshake
GateReturned == last.t.kind = "auth" /\ last.t.pc = "done"

\* the token of a handshake is absent, matches no session, or matches the
\* session of an identity without a row in users
BadToken(token) ==
    \/ token = Null
    \/ findSessionByToken(token) = Null
    \/ getUserByFirebaseUid(findSessionByToken(token)) = Null

\* C23: a handshake without a token, with a token no session holds, or with
\* the token of an identity without a user row is refused; a refusal changes
\* neither the registry nor the presence and typing maps nor the adapter
\* rooms and sends connect_error to that socket alone; a refused socket stays
\* refused; a socket is let through only by the middleware, with the token of
\* a session whose identity has a user row; so every registered socket and
\* every socket that has a command running was let through
C23_GateRefusesBeforeRegistry ==
    [][/\ GateReturned' =>
            /\ BadToken(last'.t.token) => connState'[last'.t.conn] = "refused"
            /\ connState'[last'.t.conn] = "refused" =>
                  /\ smVars' = smVars
                  /\ sockRooms' = sockRooms
                  /\ Len(last'.evs) = 1
                  /\ last'.evs[1].ev = "connect_error"
                  /\ last'.evs[1].to = {last'.t.conn}
       /\ \A c \in Conns :
            /\ connState[c] = "refused" => connState'[c] = "refused"
            /\ (connState[c] # "new" /\ connState'[c] = "new") =>
                  /\ GateReturned' /\ last'.t.conn = c
                  /\ ~BadToken(last'.t.token)
                  /\ last'.t.user = ConnUser(c)
                  /\ findSessionByToken(last'.t.token) = ConnUser(c)
            /\ (connState[c] # "open" /\ connState'[c] = "open") => connState[c] = "new"
       /\ \A uid \in DOMAIN userSockets' :
            /\ uid \in Users \cap SessionUids
            /\ connState'[userSockets'[uid]] \in {"open", "closed"}
       /\ \A t \in 1..Len(tasks') :
            tasks'[t].kind \notin {"auth", "dispatch", "token", "http_send"} =>
                connState'[tasks'[t].conn] \in {"open", "closed"}]_vars

\* the socket of u9, whose session resolves to no user row, has just been
\* refused while u1 is registered and present in room 42
C23_Witness ==
    /\ GateReturned /\ last.t.conn = <<"u9", 1>> /\ last.t.info = "u9"
    /\ connState[<<"u9", 1>>] = "refused"
    /\ Registered("u1") /\ "u1" \in PresentSet(42)
    /\ ~Registered("u9")

\* the handshake of socket c is in the middleware; it has ended, refused or
\* let through
InGate(c) == connState[c] = "auth"
GateDone(c) == connState[c] \in {"refused", "new", "open", "closed"}

----------------------------------------------------------------------------
(* Broadcast audience, typing, idempotence *)

\* the live sockets the registry holds for the identities present in room r
RegisteredPresent(r) ==
    {userSockets[uid] : uid \in PresentSet(r) \cap getConnectedUsers} \cap OpenConns

\* C25: in every state the sockets an io.to(room_r) event is delivered to are
\* the live registered sockets of the identities in the present-set of r
C25_AudienceIsRegisteredPresent ==
    \A k \in Keys : ToRoom(k) = RegisteredPresent(k[2])

\* C26: typing_start of i for r leaves i in the typing-set of r and emits one
\* typing_indicator{isTyping: true} to the sockets of the room other than
\* the originating one; typing_stop leaves i out of the typing-set of r and
\* emits isTyping: false the same way
C26_TypingFollowsLastSignal ==
    [][\A k \in Keys :
         /\ (last'.t.kind = "typing_start" /\ last'.t.key = k) =>
                /\ last'.t.user \in TypingSet(k[2])'
                /\ Len(last'.evs) = 1
                /\ last'.evs[1].ev = "typing_true"
                /\ last'.evs[1].to = ToRoom(k) \ {last'.t.conn}
         /\ (last'.t.kind = "typing_stop" /\ last'.t.key = k) =>
                /\ last'.t.user \notin TypingSet(k[2])'
                /\ Len(last'.evs) = 1
                /\ last'.evs[1].ev = "typing_false"
                /\ last'.evs[1].to = ToRoom(k) \ {last'.t.conn}]_vars

\* the two presence maps as addUserToRoom and removeUserFromRoom see them
PresenceMaps == [ru |-> roomUsers, ur |-> userRooms]

\* C27: in every state and for every identity and room id, addUserToRoom
\* applied twice gives the maps it gives applied once, removeUserFromRoom
\* applied twice gives the maps it gives applied once, and removeUserFromRoom
\* of an identity that is not present under that id changes nothing
C27_JoinLeaveIdempotent ==
    \A uid \in Users, k \in Keys :
        LET once == addUserToRoom(PresenceMaps, uid, k)
            gone == removeUserFromRoom(PresenceMaps, uid, k)
        IN /\ addUserToRoom(once, uid, k) = once
           /\ removeUserFromRoom(gone, uid, k) = gone
           /\ (uid \notin RoomStatsMembers(k) /\ k \notin SeqRange(getUserRooms(uid))) =>
                  gone = PresenceMaps

\* two join_room handlers of u1 for room 42 have both run addUserToRoom, and
\* the maps hold u1 and the room once
C27_Witness ==
    /\ last.t.kind = "join" /\ last.t.pc = "userinfo" /\ last.t.user = "u1"
    /\ Cardinality({t \in TaskIds : tasks[t].kind = "join" /\ tasks[t].pc = "userinfo"
                                      /\ tasks[t].user = "u1"}) = 2
    /\ RoomStatsMembers(<<"num", 42>>) = {"u1"}
    /\ getUserRooms("u1") = <<<<"num", 42>>>>

\* the user_left events of the step just taken
LeftIndexes == {i \in 1..Len(last.evs) : last.evs[i].ev = "user_left"}

\* C28: every run of the cleanup leaves the identity out of the registry,
\* out of every present-set and without joined rooms; it announces user_left
\* once per room id, and only for a room id under which the identity was
\* present when the run started; a run that finds the identity already
\* cleaned up changes neither map and announces no user_left.  So the two
\* runs a forced disconnection starts end, in either order, in the state one
\* run gives, with one user_left per room
C28_SecondCleanupIsIdle ==
    [][\A uid \in Users :
         (JustCleaned' /\ last'.t.user = uid /\ tasks' # tasks) =>
             /\ ~Registered(uid)' /\ PresentNowhere(uid)' /\ getUserRooms(uid)' = <<>>
             /\ \A i \in LeftIndexes' :
                   /\ uid \in RoomStatsMembers(last'.evs[i].key)
                   /\ \A j \in LeftIndexes' : last'.evs[j].key = last'.evs[i].key => j = i
             /\ (~Registered(uid) /\ PresentNowhere(uid)) =>
                   /\ roomUsers' = roomUsers
                   /\ userSockets' = userSockets
                   /\ LeftIndexes' = {}]_vars

\* both runs of a forced disconnection of u1 have returned; the one that ran
\* last, the method's own call, announced only the offline status, and room
\* 42 keeps the emptied entry the first run left
C28_Witness ==
    /\ JustCleaned /\ last.t.user = "u1" /\ last.t.conn = NoConn
    /\ ncmd.forced = 1 /\ connState[<<"u1", 1>>] = "closed"
    /\ ~Disconnecting("u1")
    /\ Len(last.evs) = 1 /\ last.evs[1].ev = "status_offline"
    /\ MapHas(roomUsers, <<"num", 42>>) /\ "u1" \notin roomUsers[<<"num", 42>>]
    /\ "u2" \in roomUsers[<<"num", 42>>]

\* C29: in every state, for every identity and room id, the identity is in
\* roomUsers under that id exactly when the id is in the identity's userRooms
C29_PresenceMapsMirror ==
    \A uid \in Users, k \in Keys :
        uid \in RoomStatsMembers(k) <=> k \in SeqRange(getUserRooms(uid))

\* a leave_room of u1 has just returned while u2 stays present: both maps
\* hold u2 with room 42 and keep the emptied entries of u1
C29_Witness ==
    /\ LeaveReturned /\ last.t.user = "u1"
    /\ MapHas(userRooms, "u1") /\ getUserRooms("u1") = <<>>
    /\ RoomStatsMembers(<<"num", 42>>) = {"u2"}
    /\ getUserRooms("u2") = <<<<"num", 42>>>>

\* no handler is suspended
Quiescent == tasks = <<>>

\* C30: in every state without a suspended handler, every identity in some
\* room's present-set has an entry in the registry
C30_PresentImpliesRegistered ==
    Quiescent => \A uid \in Users : ~PresentNowhere(uid) => Registered(uid)

----------------------------------------------------------------------------
(* Registry as the source of truth, eligible members, entitled actors *)

\* the events of the step just taken that carry the name ev
EventsNamed(ev) == {i \in 1..Len(last.evs) : last.evs[i].ev = ev}

\* some socket of uid is admitted and open
HasOpenConn(uid) == \E c \in Conns : ConnUser(c) = uid /\ Open(c)

\* C31: an identity with an admitted, open socket is listed by
\* getConnectedUsers; and the cleanup that follows the closing of one socket
\* of an identity that has another socket open takes the identity out of
\* no room (no user_left) and broadcasts no 'offline' status for it
C31_OpenConnectionStaysOnline ==
    /\ \A uid \in Users : HasOpenConn(uid) => uid \in getConnectedUsers
    /\ (JustCleaned /\ HasOpenConn(last.t.user)) =>
          EventsNamed("user_left") \cup EventsNamed("status_offline") = {}

\* handleSendMessage has just broadcast message_received and acknowledged
Broadcast == last.t.kind = "send" /\ last.t.pc = "done" /\ last.t.saved
             /\ EventsNamed("message_received") # {}

\* the identities with a socket among the receivers of the broadcast just made
Heard == {ConnUser(c) : c \in UNION {last.evs[i].to : i \in EventsNamed("message_received")}}

\* the dispatches of the send just broadcast that have read the present-set
\* and wait for their sendToUser calls
FilteredDispatches ==
    {d \in TaskIds : /\ tasks[d].kind = "dispatch" /\ tasks[d].pc = "all"
                     /\ tasks[d].conn = last.t.conn /\ tasks[d].key = last.t.key}

RoomEvents == {"user_joined", "user_left", "typing_true", "typing_false", "message_received"}
PresenceEvents == {"user_left", "typing_true", "typing_false"}

\* C33: every room event a step delivers to some socket of room r comes from
\* a handler whose identity is a durable member of r, and, for user_left and
\* typing_indicator, was in the present-set of r when the step began
C33_RoomEventsFromEntitledActors ==
    [][\A i \in 1..Len(last'.evs) :
          (last'.evs[i].ev \in RoomEvents /\ last'.evs[i].to # {}) =>
              /\ <<last'.t.user, last'.evs[i].room>> \in members
              /\ last'.evs[i].ev \in PresenceEvents =>
                    \E r \in RoomIds : r = last'.evs[i].room /\ last'.t.user \in PresentSet(r)]_vars

----------------------------------------------------------------------------
(* Tokens under concurrency, sessions, room ids, capacity *)

\* C34: a step of a dispatch clears the stored token of a user only when it
\* is the step after removeInvalidToken of a sendToUser call that submitted
\* that very token: a token registered while the push was in flight stays
C34_PruneOnlyTheInvalidToken ==
    [][\A u \in Users :
          (last'.t.kind = "dispatch" /\ fcmToken[u] # Null /\ fcmToken'[u] = Null) =>
              /\ u \in DOMAIN last'.t.subs
              /\ last'.t.subs[u].st = "removed"
              /\ last'.t.subs[u].token = fcmToken[u]]_vars

\* updateFCMToken has just returned true
TokenAccepted ==
    /\ last.t.kind = "token" /\ last.t.pc = "done"
    /\ \E i \in 1..Len(last.evs) : last.evs[i].ev = "res_200"

\* C35: no two users store the same token; and when updateFCMToken(u, t) has
\* returned true, u holds t and no other user does
C35_TokenHasOneOwner ==
    /\ \A u, v \in Users : (u # v /\ fcmToken[u] # Null) => fcmToken[u] # fcmToken[v]
    /\ TokenAccepted =>
          /\ fcmToken[last.t.user] = last.t.token
          /\ tokenHolders(last.t.user, last.t.token) = {}

\* updateFCMToken has returned true after clearing the row of the previous
\* holder, while a second call with the same token is suspended
C35_Witness ==
    /\ TokenAccepted
    /\ last.t.info \in Users /\ fcmToken[last.t.info] = Null
    /\ \E t \in TaskIds : tasks[t].kind = "token" /\ tasks[t].token = last.t.token
                          /\ tasks[t].user # last.t.user

\* POST /login has just answered 'Login successful' with last.t.token
LoggedIn ==
    /\ last.t.kind = "login" /\ last.t.pc = "done"
    /\ \E i \in 1..Len(last.evs) : last.evs[i].ev = "res_200"

\* C36: when POST /login answers for identity i, the session gate finds i
\* under the token of the answer and under no other token; and from then on
\* the token the gate accepts for i changes only by a step of a login of i
\* or by the del of a logout of i
C36_OneValidSessionToken ==
    [][/\ LoggedIn' => \A uid \in SessionIds :
                          sessions'[uid] = last'.t.token <=> uid = last'.t.user
       /\ \A uid \in SessionIds :
             sessions'[uid] # sessions[uid] =>
                /\ last'.t.user = uid
                /\ \/ last'.t.kind = "login"
                   \/ last'.t.kind = "logout" /\ sessions'[uid] = NoSession]_vars

\* socket c is open although the session store no longer holds the token it
\* was admitted with
Stale(c) == Open(c) /\ redisGet(ConnUser(c)) # firstToken(ConnUser(c))

\* C37: a socket whose session was invalidated is eventually closed, its
\* identity out of the registry and of every present-set
C37_InvalidatedSessionIsDisconnected ==
    \A c \in XConns :
        Stale(c) ~> (~Open(c) /\ ~Registered(ConnUser(c)) /\ PresentNowhere(ConnUser(c)))

\* C38: getActiveUsersInRoom returns, for either form of the room id, every
\* identity that joined the room under either form; and the active users a
\* dispatch filters by are the identities present in the room
C38_PresentSetIgnoresIdForm ==
    /\ \A k \in Keys : getActiveUsersInRoom(k) = PresentSet(k[2])
    /\ last.t.kind = "dispatch" => last.t.active = last.t.present

\* C39: the rows of room_members for a room never outnumber its max_members,
\* and a join that counts a full room is answered 400 'Chat room is full'
\* without a new row
C39_MemberCountWithinMax ==
    /\ \A r \in RoomIds : memberCount(r) <= maxMembers(r)
    /\ (last.t.kind = "http_join" /\ last.t.pc = "done" /\ last.t.ret >= MaxMembers) =>
          /\ Len(last.evs) = 1
          /\ last.evs[1].ev \in {"res_400", "res_500"}

====
